---- MODULE Spec2Model ----
(***************************************************************************)
(* Autotrade broker integration of FinceptTerminal:                        *)
(*   - AutotradeAdapter          (brokers/autotrade/AutotradeAdapter.ts,   *)
(*                                listed in brokers/autotrade/README.md)   *)
(*   - transform functions       (brokers/autotrade/types.ts)              *)
(*   - AutotradePortfolioService (services/portfolio/autotradeService.ts,  *)
(*                                src/unnamed/part_001)                    *)
(*                                                                         *)
(* Prices and money amounts are integers (minor units).  A JavaScript      *)
(* value that may be undefined is modelled by the string Undefined, and    *)
(* JavaScript booleans that may be undefined by "true" / "false" /         *)
(* Undefined.  Percentages, which the code computes by a floating point    *)
(* division, are kept as exact fractions [num, den]; den = 0 is a division *)
(* by zero.  Timestamps are integer clock readings.                        *)
(***************************************************************************)
EXTENDS Integers, Sequences, FiniteSets, TLC

VARIABLES
    isConnected,    \* AutotradeAdapter._isConnected
    accountId,      \* AutotradeAdapter._accountId
    invokeCount,    \* number of native-bridge invocations made so far
    brokerAdapter,  \* AutotradePortfolioService.brokerAdapter
    svc,            \* the getPortfolioSummary / getHoldings call in flight
    result,         \* what the most recent call returned (or is pending)
    tIn,            \* input of a transform function
    tOut,           \* output of a transform function
    tab,            \* the AutotradeTab component: its state cells, timer, requests
    view,           \* the AutoPositionsView component: its state cell and timer
    panel           \* the AutotradeScreenerPanel component: state cells, requests

sessionVars == <<isConnected, accountId>>
bridgeVars == <<invokeCount>>
svcVars == <<brokerAdapter, svc>>
transformVars == <<tIn, tOut>>
uiVars == <<tab, view, panel>>
otherVars == <<tIn, tOut, tab, view, panel>>
vars == <<isConnected, accountId, invokeCount, brokerAdapter, svc, result,
          tIn, tOut, tab, view, panel>>

----------------------------------------------------------------------------
(* Bounds *)

MaxQty == 1        \* quantities range over -MaxQty..MaxQty
MaxPrice == 1      \* prices range over 0..MaxPrice
MaxPnl == 1        \* pnl ranges over -MaxPnl..MaxPnl
MaxCash == 1       \* cash balances range over 0..MaxCash
MaxLen == 2        \* longest list of positions
MaxInvoke == 2     \* bridge invocations counted
MaxClock == 1      \* clock readings range over 0..MaxClock
MaxFetch == 2      \* runs of fetchAutotradeData / screener requests followed
MaxPost == 1       \* control POSTs followed
MaxRequest == 3    \* requests of the screener panel followed
MaxScan == 1       \* presses of Run New Scan followed

(* Program constants *)

DayMs == 86400000
ReloadDelayMs == 5000

----------------------------------------------------------------------------
(* JavaScript helpers *)

Undefined == "undefined"

Abs(x) == IF x < 0 THEN -x ELSE x

\* truthiness of a string-or-undefined value
Truthy(v) == v \notin {Undefined, "", "false"}

\* mutant: the right operand of || is dropped
JsOrFirst(a, b) == a

\* a || b
JsOr(a, b) == IF Truthy(a) THEN a ELSE b

\* numbers.reduce((sum, x) => sum + x, 0)
RECURSIVE Sum(_)
Sum(s) == IF s = <<>> THEN 0 ELSE Head(s) + Sum(Tail(s))

SeqsUpTo(S, n) == UNION {[1..k -> S] : k \in 0..n}

----------------------------------------------------------------------------
(* Input domains *)

Symbols == {"TQQQ", "SQQQ"}
Exchanges == {"NASDAQ"}
ProductTypes == {Undefined, "CASH", "MARGIN"}
Quantities == (0 - MaxQty)..MaxQty
Prices == 0..MaxPrice
Values == {0, 7}
Pnls == (0 - MaxPnl)..MaxPnl
PnlPercents == {3}
DayPnls == {5}
Overnights == {"true", "false", Undefined}
CashValues == 0..MaxCash
Times == 0..MaxClock
UserIds == {"DU1", "DU2"}

\* AutotradePosition records as the native bridge delivers them
\* (the fields the position transforms read)
AutotradePositions ==
    [symbol : Symbols, exchange : Exchanges, productType : ProductTypes,
     quantity : Quantities, buyValue : Values, sellValue : Values,
     averagePrice : Prices, lastPrice : Prices, pnl : Pnls,
     pnlPercent : PnlPercents, dayPnl : DayPnls, overnight : Overnights]

----------------------------------------------------------------------------
(* Transform functions *)

\* types.ts: transformAutotradePositionToPosition
transformAutotradePositionToPosition(autotradePosition) ==
    [symbol       |-> autotradePosition.symbol,
     exchange     |-> autotradePosition.exchange,
     productType  |-> JsOr(autotradePosition.productType, "CASH"),
     quantity     |-> autotradePosition.quantity,
     buyQuantity  |-> IF autotradePosition.quantity > 0
                      THEN autotradePosition.quantity ELSE 0,
     sellQuantity |-> IF autotradePosition.quantity < 0
                      THEN Abs(autotradePosition.quantity) ELSE 0,
     buyValue     |-> autotradePosition.buyValue,
     sellValue    |-> autotradePosition.sellValue,
     averagePrice |-> autotradePosition.averagePrice,
     lastPrice    |-> autotradePosition.lastPrice,
     pnl          |-> autotradePosition.pnl,
     pnlPercent   |-> autotradePosition.pnlPercent,
     dayPnl       |-> autotradePosition.dayPnl,
     overnight    |-> "true"]

\* mutant: sellQuantity without Math.abs
transformPositionSigned(autotradePosition) ==
    LET quantity == autotradePosition.quantity
        avgPrice == autotradePosition.averagePrice
        currentPrice == autotradePosition.lastPrice
    IN  [symbol       |-> autotradePosition.symbol,
         exchange     |-> autotradePosition.exchange,
         productType  |-> JsOr(autotradePosition.productType, "CASH"),
         quantity     |-> quantity,
         buyQuantity  |-> IF quantity > 0 THEN quantity ELSE 0,
         sellQuantity |-> IF quantity < 0 THEN quantity ELSE 0,
         buyValue     |-> IF quantity > 0 THEN quantity * avgPrice ELSE 0,
         sellValue    |-> IF quantity < 0 THEN Abs(quantity) * avgPrice ELSE 0,
         averagePrice |-> avgPrice,
         lastPrice    |-> currentPrice,
         pnl          |-> autotradePosition.pnl,
         pnlPercent   |-> autotradePosition.pnlPercent,
         dayPnl       |-> autotradePosition.dayPnl,
         overnight    |-> "true"]

\* AutotradeAdapter.transformPosition (private)
transformPosition(autotradePosition) ==
    LET quantity == autotradePosition.quantity
        avgPrice == autotradePosition.averagePrice
        currentPrice == autotradePosition.lastPrice
    IN  [symbol       |-> autotradePosition.symbol,
         exchange     |-> autotradePosition.exchange,
         productType  |-> JsOr(autotradePosition.productType, "CASH"),
         quantity     |-> quantity,
         buyQuantity  |-> IF quantity > 0 THEN quantity ELSE 0,
         sellQuantity |-> IF quantity < 0 THEN Abs(quantity) ELSE 0,
         buyValue     |-> IF quantity > 0 THEN quantity * avgPrice ELSE 0,
         sellValue    |-> IF quantity < 0 THEN Abs(quantity) * avgPrice ELSE 0,
         averagePrice |-> avgPrice,
         lastPrice    |-> currentPrice,
         pnl          |-> autotradePosition.pnl,
         pnlPercent   |-> autotradePosition.pnlPercent,
         dayPnl       |-> autotradePosition.dayPnl,
         overnight    |-> "true"]

\* mutant: avg_buy_price taken from lastPrice
portfolioHoldingLastPrice(pos, portfolio, portfolioId, now) ==
    [symbol                 |-> pos.symbol,
     instrument_id          |-> pos.instrument_id,
     portfolio_id           |-> portfolioId,
     quantity               |-> pos.quantity,
     avg_buy_price          |-> pos.lastPrice,
     current_price          |-> pos.lastPrice,
     market_value           |-> pos.market_value,
     cost_basis             |-> pos.cost_basis,
     unrealized_pnl         |-> pos.pnl,
     unrealized_pnl_percent |-> pos.pnlPercent,
     day_change             |-> pos.dayPnl,
     day_change_percent     |-> 0,
     weight                 |-> pos.weight,
     first_purchase_date    |-> now - DayMs,
     last_updated           |-> portfolio.last_updated]

\* types.ts: the holding row built for one position of the summary
portfolioHolding(pos, portfolio, portfolioId, now) ==
    [symbol                 |-> pos.symbol,
     instrument_id          |-> pos.instrument_id,
     portfolio_id           |-> portfolioId,
     quantity               |-> pos.quantity,
     avg_buy_price          |-> pos.averagePrice,
     current_price          |-> pos.lastPrice,
     market_value           |-> pos.market_value,
     cost_basis             |-> pos.cost_basis,
     unrealized_pnl         |-> pos.pnl,
     unrealized_pnl_percent |-> pos.pnlPercent,
     day_change             |-> pos.dayPnl,
     day_change_percent     |-> 0,
     weight                 |-> pos.weight,
     first_purchase_date    |-> now - DayMs,
     last_updated           |-> portfolio.last_updated]

\* mutant: lastUpdated stamped with the time of the call
transformAutotradePortfolioToFinceptStamped(portfolio, portfolioId, now) ==
    [holdings |-> [i \in 1..Len(portfolio.positions) |->
                     portfolioHolding(portfolio.positions[i], portfolio,
                                      portfolioId, now)],
     totalMarketValue          |-> portfolio.total_market_value,
     totalCostBasis            |-> portfolio.total_cost_basis,
     totalUnrealizedPnl        |-> portfolio.total_unrealized_pnl,
     totalUnrealizedPnlPercent |-> portfolio.total_unrealized_pnl_percent,
     totalPositions            |-> portfolio.total_positions,
     lastUpdated               |-> now]

\* types.ts: transformAutotradePortfolioToFincept; now is the reading of
\* Date.now() during the call
transformAutotradePortfolioToFincept(portfolio, portfolioId, now) ==
    [holdings |-> [i \in 1..Len(portfolio.positions) |->
                     portfolioHolding(portfolio.positions[i], portfolio,
                                      portfolioId, now)],
     totalMarketValue          |-> portfolio.total_market_value,
     totalCostBasis            |-> portfolio.total_cost_basis,
     totalUnrealizedPnl        |-> portfolio.total_unrealized_pnl,
     totalUnrealizedPnlPercent |-> portfolio.total_unrealized_pnl_percent,
     totalPositions            |-> portfolio.total_positions,
     lastUpdated               |-> portfolio.last_updated]

----------------------------------------------------------------------------
(* Native bridge *)

NetLiqValues == {5}
BridgeErrors == {Undefined, "service unavailable"}

\* what invoke() throws when the command fails
InvokeError == "invoke failed"

\* AutotradePortfolioSummary payloads of autotrade_get_account_summary
\* (the fields getFunds reads)
AccountSummaries ==
    [cash_balance : CashValues, net_liquidation_value : NetLiqValues,
     currency : {"USD"}]

NoSummary == [cash_balance |-> 0, net_liquidation_value |-> 0, currency |-> "USD"]

\* AutotradeApiResponse<T> envelopes, or a rejected invoke()
BridgeResponses(Payloads, noData, Errors) ==
    {[rejected |-> TRUE, success |-> FALSE, hasData |-> FALSE,
      data |-> noData, error |-> Undefined]}
    \cup [rejected : {FALSE}, success : BOOLEAN, hasData : {TRUE},
          data : Payloads, error : Errors]
    \cup [rejected : {FALSE}, success : BOOLEAN, hasData : {FALSE},
          data : {noData}, error : Errors]

\* a few AutotradePosition records: long, short, flat, and long at zero cost
SampleAutotradePositions ==
    LET base == [symbol |-> "TQQQ", exchange |-> "NASDAQ", productType |-> "CASH",
                 quantity |-> MaxQty, buyValue |-> 7, sellValue |-> 0,
                 averagePrice |-> MaxPrice, lastPrice |-> MaxPrice,
                 pnl |-> MaxPnl, pnlPercent |-> 3, dayPnl |-> 5,
                 overnight |-> "true"]
    IN  {base,
         [base EXCEPT !.symbol = "SQQQ", !.productType = Undefined,
                      !.quantity = 0 - MaxQty, !.buyValue = 0, !.sellValue = 7,
                      !.pnl = 0 - MaxPnl, !.overnight = "false"],
         [base EXCEPT !.productType = "MARGIN", !.quantity = 0,
                      !.overnight = Undefined],
         [base EXCEPT !.symbol = "SQQQ", !.averagePrice = 0,
                      !.overnight = "false"]}

AccountSummaryResponses ==
    BridgeResponses(AccountSummaries, NoSummary, BridgeErrors)
PositionsResponses ==
    BridgeResponses(SeqsUpTo(SampleAutotradePositions, MaxLen), <<>>,
                    {Undefined})

\* AutotradeAdapter.invokeAutotradeCommand: one invoke() of the native bridge
invokeAutotradeCommand ==
    /\ invokeCount < MaxInvoke
    /\ invokeCount' = invokeCount + 1

\* the command and the argument of an invoke()
Invocation(command, account) == [command |-> command, accountId |-> account]

----------------------------------------------------------------------------
(* AutotradeAdapter: what a read returns for a bridge response *)

Resolved(v) == [status |-> "resolved", value |-> v]
Rejected(e) == [status |-> "rejected", value |-> e]

\* mutant: getFunds swallows a failure envelope and returns empty funds
getFundsOutcomeSwallow(response) ==
    IF response.rejected
    THEN Rejected(InvokeError)
    ELSE IF ~response.success \/ ~response.hasData
         THEN Resolved([availableCash   |-> 0,
                        usedMargin      |-> 0,
                        availableMargin |-> 0,
                        totalBalance    |-> 0,
                        currency        |-> "USD"])
         ELSE Resolved([availableCash   |-> response.data.cash_balance,
                        usedMargin      |-> 0,
                        availableMargin |-> 0,
                        totalBalance    |-> response.data.net_liquidation_value,
                        currency        |-> response.data.currency])

\* AutotradeAdapter.getFunds after the await
getFundsOutcome(response) ==
    IF response.rejected
    THEN Rejected(InvokeError)
    ELSE IF ~response.success \/ ~response.hasData
         THEN Rejected(JsOr(response.error, "Failed to fetch funds"))
         ELSE Resolved([availableCash   |-> response.data.cash_balance,
                        usedMargin      |-> 0,
                        availableMargin |-> 0,
                        totalBalance    |-> response.data.net_liquidation_value,
                        currency        |-> response.data.currency])

\* mutant: getPositions rethrows a rejected invoke, as getFunds does
getPositionsOutcomeRethrow(response) ==
    IF response.rejected
    THEN Rejected(InvokeError)
    ELSE IF ~response.success \/ ~response.hasData
         THEN Resolved(<<>>)
         ELSE Resolved([i \in 1..Len(response.data) |->
                          transformPosition(response.data[i])])

\* mutant: getPositions maps the data of an envelope whatever its success flag
getPositionsOutcomeIgnoresSuccess(response) ==
    IF response.rejected
    THEN Resolved(<<>>)
    ELSE IF ~response.hasData
         THEN Resolved(<<>>)
         ELSE Resolved([i \in 1..Len(response.data) |->
                          transformPosition(response.data[i])])

\* AutotradeAdapter.getPositions after the await
getPositionsOutcome(response) ==
    IF response.rejected
    THEN Resolved(<<>>)
    ELSE IF ~response.success \/ ~response.hasData
         THEN Resolved(<<>>)
         ELSE Resolved([i \in 1..Len(response.data) |->
                          transformPosition(response.data[i])])

Returned(op, outcome) == [op |-> op] @@ outcome

----------------------------------------------------------------------------
(* AutotradeAdapter: operations *)

\* BrokerCredentials: userId is optional
Credentials == [userId : UserIds \cup {Undefined, ""}]

OrderInputs == [symbol : Symbols, quantity : Quantities]

NotSupported(message) ==
    [success |-> FALSE, message |-> message, errorCode |-> "NOT_SUPPORTED"]

BulkNotSupported ==
    [success |-> FALSE, totalCount |-> 0, successCount |-> 0,
     failedCount |-> 0, results |-> <<>>]

\* the errorCode property of a response object (undefined when it has none)
ErrorCodeOf(response) ==
    IF "errorCode" \in DOMAIN response THEN response.errorCode ELSE Undefined

\* mutant: authenticate fails when the credentials carry no userId
authenticateRequiresUserId(credentials) ==
    /\ accountId' = IF Truthy(credentials.userId)
                    THEN credentials.userId ELSE accountId
    /\ isConnected' = Truthy(credentials.userId)
    /\ \E now \in Times :
         result' = [credentials |-> credentials] @@ Returned("authenticate",
                     IF Truthy(credentials.userId)
                     THEN Resolved([success     |-> TRUE,
                                    accessToken |-> "autotrade-session-token",
                                    userId      |-> accountId',
                                    expiresAt   |-> now + DayMs])
                     ELSE Resolved([success   |-> FALSE,
                                    message   |-> "Authentication failed",
                                    errorCode |-> "AUTH_FAILED"]))
    /\ UNCHANGED <<bridgeVars, svcVars, otherVars>>

\* authenticate: the try block cannot throw for a BrokerCredentials object,
\* so the catch block (AUTH_FAILED) is never entered
authenticate(credentials) ==
    /\ accountId' = IF Truthy(credentials.userId)
                    THEN credentials.userId ELSE accountId
    /\ isConnected' = TRUE
    /\ \E now \in Times :
         result' = [credentials |-> credentials] @@ Returned("authenticate",
                     Resolved([success     |-> TRUE,
                               accessToken |-> "autotrade-session-token",
                               userId      |-> accountId',
                               expiresAt   |-> now + DayMs]))
    /\ UNCHANGED <<bridgeVars, svcVars, otherVars>>

Authenticate == \E credentials \in Credentials : authenticate(credentials)

\* mutant: logout ends the session but keeps the account id
LogoutKeepsAccount ==
    /\ isConnected' = FALSE
    /\ result' = Returned("logout", Resolved("void"))
    /\ UNCHANGED <<accountId, bridgeVars, svcVars, otherVars>>

Logout ==
    /\ isConnected' = FALSE
    /\ accountId' = ""
    /\ result' = Returned("logout", Resolved("void"))
    /\ UNCHANGED <<bridgeVars, svcVars, otherVars>>

\* mutant: refreshSession re-establishes the session
RefreshSessionReconnects ==
    /\ isConnected' = TRUE
    /\ result' = Returned("refreshSession",
                   IF ~isConnected
                   THEN Resolved([success   |-> FALSE,
                                  message   |-> "Not connected. Please authenticate first.",
                                  errorCode |-> "NOT_CONNECTED"])
                   ELSE Resolved([success     |-> TRUE,
                                  accessToken |-> "autotrade-session-token"]))
    /\ UNCHANGED <<accountId, bridgeVars, svcVars, otherVars>>

RefreshSession ==
    /\ result' = Returned("refreshSession",
                   IF ~isConnected
                   THEN Resolved([success   |-> FALSE,
                                  message   |-> "Not connected. Please authenticate first.",
                                  errorCode |-> "NOT_CONNECTED"])
                   ELSE Resolved([success     |-> TRUE,
                                  accessToken |-> "autotrade-session-token"]))
    /\ UNCHANGED <<sessionVars, bridgeVars, svcVars, otherVars>>

ConnectWebSocket ==
    /\ isConnected' = TRUE
    /\ result' = Returned("connectWebSocket", Resolved("void"))
    /\ UNCHANGED <<accountId, bridgeVars, svcVars, otherVars>>

DisconnectWebSocket ==
    /\ isConnected' = FALSE
    /\ result' = Returned("disconnectWebSocket", Resolved("void"))
    /\ UNCHANGED <<accountId, bridgeVars, svcVars, otherVars>>

PlaceOrder ==
    /\ \E params \in OrderInputs :
         result' = Returned("placeOrder", Resolved(
             NotSupported("Autotrade does not support manual order placement")))
    /\ UNCHANGED <<sessionVars, bridgeVars, svcVars, otherVars>>

ModifyOrder ==
    /\ \E params \in OrderInputs :
         result' = Returned("modifyOrder", Resolved(
             NotSupported("Autotrade does not support manual order modification")))
    /\ UNCHANGED <<sessionVars, bridgeVars, svcVars, otherVars>>

CancelOrder ==
    /\ \E orderId \in {"O1", "O2"} :
         result' = Returned("cancelOrder", Resolved(
             NotSupported("Autotrade does not support manual order cancellation")))
    /\ UNCHANGED <<sessionVars, bridgeVars, svcVars, otherVars>>

\* mutant: cancelAllOrders forwards the request to the native bridge
CancelAllOrdersForwarded ==
    /\ invokeAutotradeCommand
    /\ result' = Returned("cancelAllOrders", Resolved(BulkNotSupported))
    /\ UNCHANGED <<sessionVars, svcVars, otherVars>>

CancelAllOrders ==
    /\ result' = Returned("cancelAllOrders", Resolved(BulkNotSupported))
    /\ UNCHANGED <<sessionVars, bridgeVars, svcVars, otherVars>>

CloseAllPositions ==
    /\ result' = Returned("closeAllPositions", Resolved(BulkNotSupported))
    /\ UNCHANGED <<sessionVars, bridgeVars, svcVars, otherVars>>

PlaceSmartOrder ==
    /\ \E params \in OrderInputs :
         result' = Returned("placeSmartOrder", Resolved(
             NotSupported("Autotrade does not support smart orders")))
    /\ UNCHANGED <<sessionVars, bridgeVars, svcVars, otherVars>>

\* getFunds: one bridge invocation, then the response decides
GetFunds ==
    /\ invokeAutotradeCommand
    /\ \E response \in AccountSummaryResponses :
         result' = [invoked |-> Invocation("autotrade_get_account_summary",
                                          accountId),
                    response |-> response]
                   @@ Returned("getFunds", getFundsOutcome(response))
    /\ UNCHANGED <<sessionVars, svcVars, otherVars>>

\* getPositions: one bridge invocation, then the response decides
GetPositions ==
    /\ invokeAutotradeCommand
    /\ \E response \in PositionsResponses :
         result' = [invoked |-> Invocation("autotrade_get_positions", accountId),
                    response |-> response]
                   @@ Returned("getPositions", getPositionsOutcome(response))
    /\ UNCHANGED <<sessionVars, svcVars, otherVars>>

\* AutotradeOrder records as the native bridge delivers them
SampleAutotradeOrders ==
    LET base == [orderId |-> "O1", symbol |-> "TQQQ", exchange |-> "NASDAQ",
                 side |-> "BUY", quantity |-> MaxQty, filledQuantity |-> MaxQty,
                 pendingQuantity |-> 0, price |-> MaxPrice,
                 averagePrice |-> MaxPrice, triggerPrice |-> Undefined,
                 orderType |-> "MARKET", productType |-> "CASH",
                 validity |-> "DAY", status |-> "COMPLETE",
                 statusMessage |-> Undefined, placedAt |-> 0, updatedAt |-> 0,
                 exchangeOrderId |-> Undefined, tag |-> Undefined]
    IN  {base,
         [base EXCEPT !.orderId = "O2", !.symbol = "SQQQ", !.side = "SELL",
                      !.filledQuantity = 0, !.pendingQuantity = MaxQty,
                      !.orderType = "LIMIT", !.status = "OPEN",
                      !.statusMessage = "queued", !.tag = "strategy-1"]}

OrdersResponses ==
    BridgeResponses(SeqsUpTo(SampleAutotradeOrders, MaxLen), <<>>, {Undefined})

\* AutotradeAdapter.transformOrder (private)
transformOrder(autotradeOrder) ==
    [orderId         |-> autotradeOrder.orderId,
     symbol          |-> autotradeOrder.symbol,
     exchange        |-> autotradeOrder.exchange,
     side            |-> autotradeOrder.side,
     quantity        |-> autotradeOrder.quantity,
     filledQuantity  |-> autotradeOrder.filledQuantity,
     pendingQuantity |-> autotradeOrder.pendingQuantity,
     price           |-> autotradeOrder.price,
     averagePrice    |-> autotradeOrder.averagePrice,
     triggerPrice    |-> autotradeOrder.triggerPrice,
     orderType       |-> autotradeOrder.orderType,
     productType     |-> autotradeOrder.productType,
     validity        |-> autotradeOrder.validity,
     status          |-> autotradeOrder.status,
     statusMessage   |-> autotradeOrder.statusMessage,
     placedAt        |-> autotradeOrder.placedAt,
     updatedAt       |-> autotradeOrder.updatedAt,
     exchangeOrderId |-> autotradeOrder.exchangeOrderId,
     tag             |-> autotradeOrder.tag]

\* mutant: getOrders rethrows a rejected invoke, as getFunds does
getOrdersOutcomeRethrow(response) ==
    IF response.rejected
    THEN Rejected(InvokeError)
    ELSE IF ~response.success \/ ~response.hasData
         THEN Resolved(<<>>)
         ELSE Resolved([i \in 1..Len(response.data) |->
                          transformOrder(response.data[i])])

\* AutotradeAdapter.getOrders after the await
getOrdersOutcome(response) ==
    IF response.rejected
    THEN Resolved(<<>>)
    ELSE IF ~response.success \/ ~response.hasData
         THEN Resolved(<<>>)
         ELSE Resolved([i \in 1..Len(response.data) |->
                          transformOrder(response.data[i])])

\* the Holding row getHoldings builds from one position
holdingOf(pos) ==
    [symbol        |-> pos.symbol,
     exchange      |-> pos.exchange,
     quantity      |-> pos.quantity,
     averagePrice  |-> pos.averagePrice,
     lastPrice     |-> pos.lastPrice,
     investedValue |-> Abs(pos.quantity * pos.averagePrice),
     currentValue  |-> Abs(pos.quantity * pos.lastPrice),
     pnl           |-> pos.pnl,
     pnlPercent    |-> pos.pnlPercent]

\* AutotradeAdapter.getHoldings after getPositions has settled
getHoldingsOutcome(response) ==
    LET positions == getPositionsOutcome(response)
    IN  IF positions.status = "rejected"
        THEN Resolved(<<>>)
        ELSE Resolved([i \in 1..Len(positions.value) |->
                         holdingOf(positions.value[i])])

Null == "null"

\* AutotradeAdapter.getOpenPosition after getPositions has settled:
\* positions.find(...) || null
getOpenPositionOutcome(response, symbol, exchange, productType) ==
    LET positions == getPositionsOutcome(response)
        found == IF positions.status = "rejected" THEN {}
                 ELSE {i \in 1..Len(positions.value) :
                         /\ positions.value[i].symbol = symbol
                         /\ positions.value[i].exchange = exchange
                         /\ positions.value[i].productType = productType}
    IN  IF positions.status = "rejected"
        THEN positions
        ELSE IF found = {}
             THEN Resolved(Null)
             ELSE Resolved(positions.value[
                      CHOOSE i \in found : \A j \in found : i <= j])

\* mutant: getOrders invokes the bridge a second time after a failure
GetOrdersRetry ==
    /\ \E response \in OrdersResponses :
         /\ invokeCount + (IF response.rejected THEN 2 ELSE 1) <= MaxInvoke
         /\ invokeCount' = invokeCount + (IF response.rejected THEN 2 ELSE 1)
         /\ result' = [invoked |-> Invocation("autotrade_get_orders", accountId),
                       response |-> response]
                      @@ Returned("getOrders", getOrdersOutcome(response))
    /\ UNCHANGED <<sessionVars, svcVars, otherVars>>

\* getOrders: one bridge invocation, then the response decides
GetOrders ==
    /\ invokeAutotradeCommand
    /\ \E response \in OrdersResponses :
         result' = [invoked |-> Invocation("autotrade_get_orders", accountId),
                    response |-> response]
                   @@ Returned("getOrders", getOrdersOutcome(response))
    /\ UNCHANGED <<sessionVars, svcVars, otherVars>>

\* getOrderHistory: return this.getOrders()
GetOrderHistory ==
    /\ invokeAutotradeCommand
    /\ \E response \in OrdersResponses :
         result' = [invoked |-> Invocation("autotrade_get_orders", accountId),
                    response |-> response]
                   @@ Returned("getOrderHistory", getOrdersOutcome(response))
    /\ UNCHANGED <<sessionVars, svcVars, otherVars>>

\* responses of autotrade_get_positions to the reads built on getPositions():
\* lists one shorter than those getPositions itself is given
DerivedReadResponses ==
    BridgeResponses(SeqsUpTo(SampleAutotradePositions, MaxLen - 1), <<>>,
                    {Undefined})

\* getHoldings of the adapter: await this.getPositions(), then map
AdapterGetHoldings ==
    /\ invokeAutotradeCommand
    /\ \E response \in DerivedReadResponses :
         result' = [invoked |-> Invocation("autotrade_get_positions", accountId),
                    response |-> response]
                   @@ Returned("adapter.getHoldings", getHoldingsOutcome(response))
    /\ UNCHANGED <<sessionVars, svcVars, otherVars>>

\* getOpenPosition: await this.getPositions(), then find
GetOpenPosition ==
    /\ invokeAutotradeCommand
    /\ \E response \in DerivedReadResponses, symbol \in Symbols,
          exchange \in Exchanges, productType \in ProductTypes \ {Undefined} :
         result' = [invoked |-> Invocation("autotrade_get_positions", accountId),
                    response |-> response,
                    args |-> [symbol |-> symbol, exchange |-> exchange,
                              productType |-> productType]]
                   @@ Returned("getOpenPosition",
                               getOpenPositionOutcome(response, symbol, exchange,
                                                      productType))
    /\ UNCHANGED <<sessionVars, svcVars, otherVars>>

\* the placeholder Quote of getQuote; now is the reading of Date.now()
placeholderQuote(symbol, exchange, now) ==
    [symbol |-> symbol, exchange |-> exchange, lastPrice |-> 0, open |-> 0,
     high |-> 0, low |-> 0, close |-> 0, previousClose |-> 0, change |-> 0,
     changePercent |-> 0, volume |-> 0, bid |-> 0, bidQty |-> 0, ask |-> 0,
     askQty |-> 0, timestamp |-> now]

\* the instruments argument of getQuotes
InstrumentLists ==
    SeqsUpTo([symbol : Symbols, exchange : Exchanges], MaxLen)

\* clock readings of n successive calls of Date.now()
ClockReadings(n) ==
    {ts \in [1..n -> Times] : \A i \in 1..n, j \in 1..n : i <= j => ts[i] <= ts[j]}

\* mutant: getQuote asks the native bridge for the quote
GetQuoteInvokes ==
    /\ invokeAutotradeCommand
    /\ \E symbol \in Symbols, exchange \in Exchanges, now \in Times :
         result' = Returned("getQuote",
                            Resolved(placeholderQuote(symbol, exchange, now)))
    /\ UNCHANGED <<sessionVars, svcVars, otherVars>>

GetQuote ==
    /\ \E symbol \in Symbols, exchange \in Exchanges, now \in Times :
         result' = Returned("getQuote",
                            Resolved(placeholderQuote(symbol, exchange, now)))
    /\ UNCHANGED <<sessionVars, bridgeVars, svcVars, otherVars>>

\* getQuotes: one getQuote per instrument, in order
GetQuotes ==
    /\ \E instruments \in InstrumentLists :
         \E ts \in ClockReadings(Len(instruments)) :
           result' = Returned("getQuotes", Resolved(
               [i \in 1..Len(instruments) |->
                  placeholderQuote(instruments[i].symbol,
                                   instruments[i].exchange, ts[i])]))
    /\ UNCHANGED <<sessionVars, bridgeVars, svcVars, otherVars>>

GetMarketDepth ==
    /\ \E symbol \in Symbols, exchange \in Exchanges :
         result' = Returned("getMarketDepth",
                            Resolved([bids |-> <<>>, asks |-> <<>>]))
    /\ UNCHANGED <<sessionVars, bridgeVars, svcVars, otherVars>>

\* the streaming placeholders: empty bodies
StreamingNoOp(op) ==
    /\ result' = Returned(op, Resolved("void"))
    /\ UNCHANGED <<sessionVars, bridgeVars, svcVars, otherVars>>

Subscribe == StreamingNoOp("subscribe")
Unsubscribe == StreamingNoOp("unsubscribe")
OnTick == StreamingNoOp("onTick")
OffTick == StreamingNoOp("offTick")
OnDepth == StreamingNoOp("onDepth")
OffDepth == StreamingNoOp("offDepth")

----------------------------------------------------------------------------
(* AutotradePortfolioService *)

NullAdapter == "null"

\* implementations of IStockBrokerAdapter that can be injected: the
\* AutotradeAdapter above and some other implementation of the interface
Adapters == {"autotrade", "other"}

defaultPortfolioId == "autotrade-portfolio"

ErrAdapterNotSet == "Broker adapter not set. Call setBrokerAdapter() first."

\* what the other adapter's getFunds / getPositions may settle to
OtherAdapterError == "adapter failed"

PositionsOf(Raw) ==
    {[transformAutotradePositionToPosition(r) EXCEPT !.overnight = r.overnight]
       : r \in Raw}

OtherFundsOutcomes ==
    {Rejected(OtherAdapterError)}
    \cup {Resolved([availableCash |-> c, usedMargin |-> 0, availableMargin |-> 0,
                    totalBalance |-> c, currency |-> "USD"]) : c \in CashValues}

OtherPositionsOutcomes(Lists) ==
    {Rejected(OtherAdapterError)} \cup {Resolved(l) : l \in Lists}

\* position lists of the other adapter: lists of a few sample positions
SamplePositionLists == SeqsUpTo(PositionsOf(SampleAutotradePositions), MaxLen)

\* positions over the full range of quantities, prices and pnl
RangePositions ==
    PositionsOf({r \in AutotradePositions :
                   /\ r.symbol = "TQQQ"
                   /\ r.productType = "CASH"
                   /\ r.buyValue = 0
                   /\ r.sellValue = 0
                   /\ r.overnight = "false"})

\* position lists of the other adapter: the empty list, and lists of sample
\* positions followed by one position of the full range
RangePositionLists ==
    {<<>>} \cup {Append(l, r) :
                   l \in SeqsUpTo(PositionsOf(SampleAutotradePositions),
                                  MaxLen - 1),
                   r \in RangePositions}

\* mutant: the market value of a position without Math.abs
marketValueOfSigned(p) == p.quantity * p.lastPrice

marketValueOf(p) == Abs(p.quantity * p.lastPrice)
costBasisOf(p) == Abs(p.quantity * p.averagePrice)
pnlOf(p) == p.pnl

Zero == [num |-> 0, den |-> 1]

\* mutant: the division without its guard
unrealizedPnlPercentUnguarded(totalUnrealizedPnl, totalCostBasis) ==
    [num |-> totalUnrealizedPnl * 100, den |-> totalCostBasis]

\* (totalUnrealizedPnl / totalCostBasis) * 100 behind its guard
unrealizedPnlPercent(totalUnrealizedPnl, totalCostBasis) ==
    IF totalCostBasis > 0
    THEN [num |-> totalUnrealizedPnl * 100, den |-> totalCostBasis]
    ELSE Zero

\* mutant: the market value of a synthesized position without Math.abs
portfolioPositionSigned(p) ==
    [symbol |-> p.symbol,
     instrument_id |-> <<p.symbol, ".", p.exchange>>,
     exchange |-> p.exchange,
     productType |-> p.productType,
     quantity |-> p.quantity,
     buyQuantity |-> p.buyQuantity,
     sellQuantity |-> p.sellQuantity,
     buyValue |-> p.buyValue,
     sellValue |-> p.sellValue,
     averagePrice |-> p.averagePrice,
     lastPrice |-> p.lastPrice,
     pnl |-> p.pnl,
     pnlPercent |-> p.pnlPercent,
     dayPnl |-> p.dayPnl,
     overnight |-> JsOr(p.overnight, "true"),
     market_value |-> p.quantity * p.lastPrice,
     cost_basis |-> Abs(p.quantity * p.averagePrice),
     day_change |-> p.dayPnl,
     day_change_percent |-> 0,
     weight |-> 0,
     instrument_type |-> "ETF"]

\* the AutotradePosition synthesized for one adapter position
portfolioPosition(p) ==
    [symbol |-> p.symbol,
     instrument_id |-> <<p.symbol, ".", p.exchange>>,
     exchange |-> p.exchange,
     productType |-> p.productType,
     quantity |-> p.quantity,
     buyQuantity |-> p.buyQuantity,
     sellQuantity |-> p.sellQuantity,
     buyValue |-> p.buyValue,
     sellValue |-> p.sellValue,
     averagePrice |-> p.averagePrice,
     lastPrice |-> p.lastPrice,
     pnl |-> p.pnl,
     pnlPercent |-> p.pnlPercent,
     dayPnl |-> p.dayPnl,
     overnight |-> JsOr(p.overnight, "true"),
     market_value |-> Abs(p.quantity * p.lastPrice),
     cost_basis |-> Abs(p.quantity * p.averagePrice),
     day_change |-> p.dayPnl,
     day_change_percent |-> 0,
     weight |-> 0,
     instrument_type |-> "ETF"]

\* fetchAutotradePortfolio once getFunds and getPositions have resolved
fetchAutotradePortfolio(account, funds, positions, now) ==
    LET n == Len(positions)
        totalMarketValue == Sum([i \in 1..n |-> marketValueOf(positions[i])])
        totalCostBasis == Sum([i \in 1..n |-> costBasisOf(positions[i])])
        totalUnrealizedPnl == Sum([i \in 1..n |-> pnlOf(positions[i])])
    IN  [account_id |-> account,
         timestamp |-> now,
         currency |-> "USD",
         cash_balance |-> funds.availableCash,
         total_market_value |-> totalMarketValue,
         total_cost_basis |-> totalCostBasis,
         total_unrealized_pnl |-> totalUnrealizedPnl,
         total_unrealized_pnl_percent |->
             unrealizedPnlPercent(totalUnrealizedPnl, totalCostBasis),
         total_realized_pnl |-> 0,
         total_positions |-> Len(positions),
         net_liquidation_value |-> totalMarketValue + funds.availableCash,
         positions |-> [i \in 1..Len(positions) |-> portfolioPosition(positions[i])],
         last_updated |-> now]

\* the HoldingWithQuote row getPortfolioSummary builds from a holding
holdingWithQuote(h) ==
    [id |-> h.instrument_id,
     portfolio_id |-> defaultPortfolioId,
     symbol |-> h.symbol,
     quantity |-> h.quantity,
     avg_buy_price |-> h.avg_buy_price,
     current_price |-> h.current_price,
     market_value |-> h.market_value,
     cost_basis |-> h.cost_basis,
     unrealized_pnl |-> h.unrealized_pnl,
     unrealized_pnl_percent |-> h.unrealized_pnl_percent,
     day_change |-> h.day_change,
     day_change_percent |-> h.day_change_percent,
     weight |-> h.weight,
     first_purchase_date |-> h.first_purchase_date,
     last_updated |-> h.last_updated]

\* getPortfolioSummary after fetchAutotradePortfolio has resolved
portfolioSummary(account, autotradePortfolio, now) ==
    LET finceptPortfolio ==
            transformAutotradePortfolioToFincept(autotradePortfolio,
                                                 defaultPortfolioId, now)
    IN  [portfolio |-> [id |-> defaultPortfolioId,
                        name |-> "Autotrade Portfolio",
                        owner |-> account,
                        currency |-> "USD",
                        description |-> "Autotrade automated trading portfolio",
                        created_at |-> autotradePortfolio.last_updated,
                        updated_at |-> autotradePortfolio.last_updated],
         holdings |-> [i \in 1..Len(finceptPortfolio.holdings) |->
                         holdingWithQuote(finceptPortfolio.holdings[i])],
         total_market_value |-> finceptPortfolio.totalMarketValue,
         total_cost_basis |-> finceptPortfolio.totalCostBasis,
         total_unrealized_pnl |-> finceptPortfolio.totalUnrealizedPnl,
         total_unrealized_pnl_percent |-> finceptPortfolio.totalUnrealizedPnlPercent,
         total_positions |-> finceptPortfolio.totalPositions,
         total_day_change |-> 0,
         total_day_change_percent |-> 0,
         last_updated |-> finceptPortfolio.lastUpdated]

NoFunds == [availableCash |-> 0, usedMargin |-> 0, availableMargin |-> 0,
            totalBalance |-> 0, currency |-> "USD"]

SvcIdle == [pc |-> "idle", op |-> "none", accountId |-> "", funds |-> NoFunds,
            calls |-> <<>>]

ServiceOps == {"getPortfolioSummary", "getHoldings"}

\* the accountId argument of the service calls
ServiceAccounts == {"DU1"}

\* a call of an adapter method by the service; account is the account id
\* the AutotradeAdapter hands to the bridge
AdapterCall(adapter, method) ==
    [adapter |-> adapter, method |-> method,
     account |-> IF adapter = "autotrade" THEN accountId ELSE Undefined]

setBrokerAdapter(adapter) ==
    /\ brokerAdapter' = adapter
    /\ UNCHANGED <<sessionVars, bridgeVars, svc, result, otherVars>>

\* mutant: the service call without the adapter check
ServiceCallUnchecked(op, account) ==
    /\ svc.pc = "idle"
    /\ IF brokerAdapter = "autotrade"
       THEN invokeAutotradeCommand
       ELSE UNCHANGED bridgeVars
    /\ svc' = [pc |-> "funds", op |-> op, accountId |-> account,
               funds |-> NoFunds,
               calls |-> <<AdapterCall(brokerAdapter, "getFunds")>>]
    /\ result' = [op |-> op, status |-> "pending"]
    /\ UNCHANGED <<sessionVars, brokerAdapter, otherVars>>

\* getPortfolioSummary(accountId), or getHoldings(accountId) which awaits it:
\* the adapter check, then fetchAutotradePortfolio up to its first await
ServiceCall(op, account) ==
    /\ svc.pc = "idle"
    /\ IF brokerAdapter = NullAdapter
       THEN /\ result' = [calls |-> <<>>]
                         @@ Returned(op, Rejected(ErrAdapterNotSet))
            /\ UNCHANGED <<bridgeVars, svc>>
       ELSE /\ IF brokerAdapter = "autotrade"
               THEN invokeAutotradeCommand
               ELSE UNCHANGED bridgeVars
            /\ svc' = [pc |-> "funds", op |-> op, accountId |-> account,
                       funds |-> NoFunds,
                       calls |-> <<AdapterCall(brokerAdapter, "getFunds")>>]
            /\ result' = [op |-> op, status |-> "pending"]
    /\ UNCHANGED <<sessionVars, brokerAdapter, otherVars>>

\* what the adapter's getFunds() may settle to, with the bridge response
\* behind it when the adapter is the AutotradeAdapter
FundsSettlements(adapter) ==
    IF adapter = "autotrade"
    THEN {[response |-> r] @@ getFundsOutcome(r) : r \in AccountSummaryResponses}
    ELSE OtherFundsOutcomes

\* what the adapter's getPositions() may settle to, likewise
PositionsSettlements(adapter, OtherLists) ==
    IF adapter = "autotrade"
    THEN {[response |-> r] @@ getPositionsOutcome(r) : r \in PositionsResponses}
    ELSE OtherPositionsOutcomes(OtherLists)

\* mutant: getPositions is fetched although getFunds has rejected
FundsSettledFetchesAnyway ==
    /\ svc.pc = "funds"
    /\ \E outcome \in FundsSettlements(svc.calls[1].adapter) :
         IF outcome.status = "rejected"
         THEN /\ result' = [calls |-> Append(svc.calls,
                                        AdapterCall(brokerAdapter, "getPositions")),
                            failedAt |-> "getFunds", settled |-> outcome]
                           @@ Returned(svc.op, Rejected(outcome.value))
              /\ svc' = SvcIdle
              /\ UNCHANGED bridgeVars
         ELSE /\ IF brokerAdapter = "autotrade"
                 THEN invokeAutotradeCommand
                 ELSE UNCHANGED bridgeVars
              /\ svc' = [svc EXCEPT !.pc = "positions",
                                    !.funds = outcome.value,
                                    !.calls = Append(@,
                                        AdapterCall(brokerAdapter, "getPositions"))]
              /\ UNCHANGED result
    /\ UNCHANGED <<sessionVars, brokerAdapter, otherVars>>

\* brokerAdapter.getFunds() settles: a rejection is rethrown, otherwise
\* this.brokerAdapter.getPositions() is called
FundsSettled ==
    /\ svc.pc = "funds"
    /\ \E outcome \in FundsSettlements(svc.calls[1].adapter) :
         IF outcome.status = "rejected"
         THEN /\ result' = [calls |-> svc.calls, failedAt |-> "getFunds",
                            settled |-> outcome]
                           @@ Returned(svc.op, Rejected(outcome.value))
              /\ svc' = SvcIdle
              /\ UNCHANGED bridgeVars
         ELSE /\ IF brokerAdapter = "autotrade"
                 THEN invokeAutotradeCommand
                 ELSE UNCHANGED bridgeVars
              /\ svc' = [svc EXCEPT !.pc = "positions",
                                    !.funds = outcome.value,
                                    !.calls = Append(@,
                                        AdapterCall(brokerAdapter, "getPositions"))]
              /\ UNCHANGED result
    /\ UNCHANGED <<sessionVars, brokerAdapter, otherVars>>

\* brokerAdapter.getPositions() settles: the summary is synthesized,
\* transformed and returned
PositionsSettled(OtherLists, Clock) ==
    /\ svc.pc = "positions"
    /\ \E outcome \in PositionsSettlements(svc.calls[2].adapter, OtherLists) :
         IF outcome.status = "rejected"
         THEN result' = [calls |-> svc.calls, failedAt |-> "getPositions"]
                        @@ Returned(svc.op, Rejected(outcome.value))
         ELSE \E t1 \in Clock, t2 \in Clock :
                /\ t1 <= t2
                /\ LET autotradePortfolio ==
                           fetchAutotradePortfolio(svc.accountId, svc.funds,
                                                   outcome.value, t1)
                       summary == portfolioSummary(svc.accountId,
                                                   autotradePortfolio, t2)
                   IN  result' = [calls |-> svc.calls,
                                  accountId |-> svc.accountId,
                                  clock |-> <<t1, t2>>,
                                  funds |-> svc.funds,
                                  settled |-> outcome,
                                  positions |-> outcome.value,
                                  autotradePortfolio |-> autotradePortfolio]
                                 @@ Returned(svc.op, Resolved(
                                      IF svc.op = "getHoldings"
                                      THEN summary.holdings ELSE summary))
    /\ svc' = SvcIdle
    /\ UNCHANGED <<sessionVars, bridgeVars, brokerAdapter, otherVars>>

SetBrokerAdapter == \E adapter \in Adapters : setBrokerAdapter(adapter)

GetPortfolioSummary ==
    \E account \in ServiceAccounts : ServiceCall("getPortfolioSummary", account)

GetHoldings ==
    \E account \in ServiceAccounts : ServiceCall("getHoldings", account)

----------------------------------------------------------------------------
(* AutotradeTab *)

\* A state cell (useState) holds the value most recently handed to its
\* setter.  Response data carry the number of the fetchAutotradeData run
\* whose request they answer (req), 0 for the initial value.  A run records
\* where its continuation stands and whether its strategies response was
\* applied.

\* useState<SystemStatus | null>(null): isNull marks the null value
NullStatus == [isNull |-> TRUE, redis |-> FALSE, postgres |-> FALSE,
               ib_gateway |-> FALSE, execution_engine |-> FALSE,
               market_data |-> FALSE]

\* the SystemStatus object with every service set to healthy
statusOf(healthy) ==
    [isNull |-> FALSE, redis |-> healthy, postgres |-> healthy,
     ib_gateway |-> healthy, execution_engine |-> healthy,
     market_data |-> healthy]

ErrFailedToConnect == "Failed to connect to AutoTrade API"

NoData == [req |-> 0, data |-> <<>>]

TabAbsent ==
    [life |-> "absent", interval |-> FALSE, strategies |-> NoData,
     positions |-> NoData, systemStatus |-> NullStatus, isLoading |-> TRUE,
     error |-> Null, runs |-> <<>>, posts |-> <<>>,
     arrived |-> [strategies |-> 0, positions |-> 0]]

\* bodies of the /health response
HealthBodies ==
    {[services_redis |-> "healthy", redis |-> Undefined],
     [services_redis |-> Undefined, redis |-> "connected"],
     [services_redis |-> "unhealthy", redis |-> Undefined]}

\* status.services?.redis === 'healthy' || status.redis === 'connected'
isSystemHealthy(status) ==
    status.services_redis = "healthy" \/ status.redis = "connected"

\* bodies of the /strategies/active and /positions responses: an object
\* holding the list under its key, a bare list, or an object without it
ListBodies(list) ==
    {[shape |-> "keyed", list |-> list], [shape |-> "array", list |-> list],
     [shape |-> "object", list |-> <<>>]}

\* Array.isArray(data.key) ? data.key : (Array.isArray(data) ? data : [])
arrayOf(data) ==
    IF data.shape = "keyed" THEN data.list
    ELSE IF data.shape = "array" THEN data.list ELSE <<>>

StrategyLists == {<<"strat-1">>}
PositionLists == {<<"TQQQ">>}

NoBody == [shape |-> "none", list |-> <<>>]
NoHealthBody == [services_redis |-> Undefined, redis |-> Undefined]

\* how a fetch() of the backend settles: a 2xx response with a body, a
\* non-2xx response, or a rejection (also a body that cannot be read)
FetchOutcomes(Bodies, noBody) ==
    [kind : {"ok"}, body : Bodies]
    \cup {[kind |-> "notOk", body |-> noBody], [kind |-> "throws", body |-> noBody]}

\* mutant: a failed fetch degrades the lists to the empty display state
fetchFailedClearsLists(t, i) ==
    [t EXCEPT !.error = ErrFailedToConnect,
              !.systemStatus = statusOf(FALSE),
              !.isLoading = FALSE,
              !.strategies = NoData,
              !.positions = NoData,
              !.runs[i].pc = "done"]

\* the catch and finally blocks of fetchAutotradeData, for run i
fetchFailed(t, i) ==
    [t EXCEPT !.error = ErrFailedToConnect,
              !.systemStatus = statusOf(FALSE),
              !.isLoading = FALSE,
              !.runs[i].pc = "done"]

\* fetchAutotradeData up to its first await: setIsLoading(true),
\* setError(null), fetch(/health)
fetchAutotradeData(t) ==
    [t EXCEPT !.isLoading = TRUE,
              !.error = Null,
              !.runs = Append(@, [pc |-> "health", applied |-> {}])]

\* the mount effect: fetchAutotradeData(), setInterval(fetchAutotradeData, 5000).
\* The components share no state; a behaviour follows one of them.
MountAutotradeTab ==
    /\ tab.life = "absent" /\ view.life = "absent" /\ panel.life = "absent"
    /\ tab' = fetchAutotradeData([tab EXCEPT !.life = "mounted",
                                             !.interval = TRUE])
    /\ UNCHANGED <<sessionVars, bridgeVars, svcVars, result, transformVars,
                   view, panel>>

\* mutant: the effect returns no cleanup
UnmountAutotradeTabKeepsInterval ==
    /\ tab.life = "mounted"
    /\ tab' = [tab EXCEPT !.life = "torndown"]
    /\ UNCHANGED <<sessionVars, bridgeVars, svcVars, result, transformVars,
                   view, panel>>

\* the effect's cleanup: clearInterval(interval)
UnmountAutotradeTab ==
    /\ tab.life = "mounted"
    /\ tab' = [tab EXCEPT !.life = "torndown", !.interval = FALSE]
    /\ UNCHANGED <<sessionVars, bridgeVars, svcVars, result, transformVars,
                   view, panel>>

\* the 5 s interval timer fires
TabTick ==
    /\ tab.interval
    /\ Len(tab.runs) < MaxFetch
    /\ tab' = fetchAutotradeData(tab)
    /\ UNCHANGED <<sessionVars, bridgeVars, svcVars, result, transformVars,
                   view, panel>>

TabFrame ==
    UNCHANGED <<sessionVars, bridgeVars, svcVars, result, transformVars,
                view, panel>>

\* fetchAutotradeData of run i from the /health response to the next fetch
healthSettled(t, i, statusRes) ==
    IF statusRes.kind = "throws"
    THEN fetchFailed(t, i)
    ELSE IF statusRes.kind = "ok"
         THEN [t EXCEPT !.systemStatus =
                            statusOf(isSystemHealthy(statusRes.body)),
                        !.runs[i].pc = "strategies"]
         ELSE [t EXCEPT !.runs[i].pc = "strategies"]

\* the /health response of run i arrives
TabHealthSettled ==
    /\ \E i \in 1..Len(tab.runs) :
         /\ tab.runs[i].pc = "health"
         /\ \E statusRes \in FetchOutcomes(HealthBodies, NoHealthBody) :
              tab' = healthSettled(tab, i, statusRes)
    /\ TabFrame

\* mutant: a response is applied only if no later run has been applied
TabStrategiesSettledGuarded ==
    /\ \E i \in 1..Len(tab.runs) :
         /\ tab.runs[i].pc = "strategies"
         /\ \E strategiesRes \in
                 UNION {FetchOutcomes(ListBodies(l), NoBody) : l \in StrategyLists} :
              tab' = IF strategiesRes.kind = "throws"
                     THEN fetchFailed(tab, i)
                     ELSE IF strategiesRes.kind = "ok"
                          THEN [tab EXCEPT
                                  !.strategies =
                                      IF i > @.req
                                      THEN [req |-> i,
                                            data |-> arrayOf(strategiesRes.body)]
                                      ELSE @,
                                  !.arrived.strategies = i,
                                  !.runs[i].applied = @ \cup {"strategies"},
                                  !.runs[i].pc = "positions"]
                          ELSE [tab EXCEPT !.runs[i].pc = "positions"]
    /\ TabFrame

\* fetchAutotradeData of run i from the /strategies/active response to the
\* next fetch
strategiesSettled(t, i, strategiesRes) ==
    IF strategiesRes.kind = "throws"
    THEN fetchFailed(t, i)
    ELSE IF strategiesRes.kind = "ok"
         THEN [t EXCEPT !.strategies = [req |-> i,
                                        data |-> arrayOf(strategiesRes.body)],
                        !.arrived.strategies = i,
                        !.runs[i].applied = @ \cup {"strategies"},
                        !.runs[i].pc = "positions"]
         ELSE [t EXCEPT !.runs[i].pc = "positions"]

StrategiesOutcomes ==
    UNION {FetchOutcomes(ListBodies(l), NoBody) : l \in StrategyLists}

PositionsOutcomes ==
    UNION {FetchOutcomes(ListBodies(l), NoBody) : l \in PositionLists}

\* the /strategies/active response of run i arrives
TabStrategiesSettled ==
    /\ \E i \in 1..Len(tab.runs) :
         /\ tab.runs[i].pc = "strategies"
         /\ \E strategiesRes \in StrategiesOutcomes :
              tab' = strategiesSettled(tab, i, strategiesRes)
    /\ TabFrame

\* fetchAutotradeData of run i from the /positions response to its end
\* (the finally block)
positionsSettled(t, i, positionsRes) ==
    IF positionsRes.kind = "throws"
    THEN fetchFailed(t, i)
    ELSE IF positionsRes.kind = "ok"
         THEN [t EXCEPT !.positions = [req |-> i,
                                       data |-> arrayOf(positionsRes.body)],
                        !.arrived.positions = i,
                        !.isLoading = FALSE,
                        !.runs[i].pc = "done"]
         ELSE [t EXCEPT !.isLoading = FALSE,
                        !.runs[i].pc = "done"]

\* the /positions response of run i arrives
TabPositionsSettled ==
    /\ \E i \in 1..Len(tab.runs) :
         /\ tab.runs[i].pc = "positions"
         /\ \E positionsRes \in PositionsOutcomes :
              tab' = positionsSettled(tab, i, positionsRes)
    /\ TabFrame

\* the main view, with its strategy buttons, is rendered
MainViewRendered ==
    /\ tab.life = "mounted"
    /\ ~(tab.isLoading /\ tab.systemStatus.isNull)
    /\ ~(tab.error # Null /\ tab.systemStatus.isNull)

StrategyActions == {"start", "pause", "stop"}

\* a POST issued by a control handler; outcome is "none" while in flight
postOf(handler) == [handler |-> handler, outcome |-> "none"]

\* controlStrategy(strategyId, action) up to its await: fetch(..., POST)
ControlStrategy ==
    /\ MainViewRendered
    /\ Len(tab.posts) < MaxPost
    /\ \E k \in 1..Len(tab.strategies.data), action \in StrategyActions :
         tab' = [tab EXCEPT !.posts = Append(@, postOf("controlStrategy"))]
    /\ TabFrame

\* placeOrder(symbol, quantity, side) up to its await: fetch(/orders, POST)
TabPlaceOrder ==
    /\ tab.life = "mounted"
    /\ Len(tab.posts) < MaxPost
    /\ \E symbol \in Symbols, side \in {"buy", "sell"} :
         tab' = [tab EXCEPT !.posts = Append(@, postOf("placeOrder"))]
    /\ TabFrame

PostOutcomes == {"ok", "notOk", "throws"}

\* mutant: a failed POST also refreshes the view
controlSettledAlwaysRefetches(t, i, outcome) ==
    fetchAutotradeData([t EXCEPT !.posts[i].outcome = outcome])

\* the continuation of controlStrategy / placeOrder: if (res.ok)
\* fetchAutotradeData(); the catch block only logs
controlSettled(t, i, outcome) ==
    IF outcome = "ok"
    THEN fetchAutotradeData([t EXCEPT !.posts[i].outcome = outcome])
    ELSE [t EXCEPT !.posts[i].outcome = outcome]

\* the response of a control POST arrives
TabPostSettled ==
    /\ \E i \in 1..Len(tab.posts), outcome \in PostOutcomes :
         /\ tab.posts[i].outcome = "none"
         /\ Len(controlSettled(tab, i, outcome).runs) <= MaxFetch
         /\ tab' = controlSettled(tab, i, outcome)
    /\ TabFrame

----------------------------------------------------------------------------
(* AutoPositionsView *)

ViewAbsent ==
    [life |-> "absent", interval |-> FALSE, lastRefresh |-> 0, refreshes |-> 0]

\* useState(new Date()) and the effect: setInterval(..., 30000)
MountAutoPositionsView ==
    /\ tab.life = "absent" /\ view.life = "absent" /\ panel.life = "absent"
    /\ \E now \in Times :
         view' = [life |-> "mounted", interval |-> TRUE, lastRefresh |-> now,
                  refreshes |-> 0]
    /\ UNCHANGED <<sessionVars, bridgeVars, svcVars, result, transformVars,
                   tab, panel>>

\* the 30 s interval timer fires: setLastRefresh(new Date())
ViewTick ==
    /\ view.interval
    /\ view.refreshes < MaxFetch
    /\ \E now \in Times :
         /\ now >= view.lastRefresh
         /\ view' = [view EXCEPT !.lastRefresh = now, !.refreshes = @ + 1]
    /\ UNCHANGED <<sessionVars, bridgeVars, svcVars, result, transformVars,
                   tab, panel>>

\* the effect's cleanup: clearInterval(interval)
UnmountAutoPositionsView ==
    /\ view.life = "mounted"
    /\ view' = [view EXCEPT !.life = "torndown", !.interval = FALSE]
    /\ UNCHANGED <<sessionVars, bridgeVars, svcVars, result, transformVars,
                   tab, panel>>

----------------------------------------------------------------------------
(* AutotradeScreenerPanel *)

\* lists of ScreenerConfig records the backend may return
ConfigLists ==
    {<<>>,
     <<[name |-> "momentum", filename |-> "momentum.yaml"],
       [name |-> "value", filename |-> "value.yaml"]>>}

\* bodies of the /screener/configs response: data.configs may be missing
ConfigBodies == [hasConfigs : {TRUE}, configs : ConfigLists]
                \cup {[hasConfigs |-> FALSE, configs |-> <<>>]}

NoConfigBody == [hasConfigs |-> FALSE, configs |-> <<>>]

\* useState<ScreenerSession | null>(null): isNull marks the null value
NullSession == [isNull |-> TRUE, config_name |-> "", req |-> 0]

NoResults == [req |-> 0, config |-> "", data |-> <<>>]

\* bodies of the /screener/latest response for a config: data.results may
\* be missing, data.session may be null
LatestBodies(config) ==
    [hasResults : BOOLEAN, results : {<<"AAPL">>}, hasSession : BOOLEAN,
     config_name : {config}]

NoLatestBody ==
    [hasResults |-> FALSE, results |-> <<>>, hasSession |-> FALSE,
     config_name |-> ""]

PanelAbsent ==
    [life |-> "absent", configs |-> <<>>, selectedConfig |-> "",
     results |-> NoResults, session |-> NullSession, isLoading |-> FALSE,
     isLoadingConfigs |-> TRUE, requests |-> <<>>, scans |-> <<>>]

PanelFrame ==
    UNCHANGED <<sessionVars, bridgeVars, svcVars, result, transformVars,
                tab, view>>

\* loadConfigs up to its await: setIsLoadingConfigs(true), fetch(configs)
loadConfigs(p) ==
    [p EXCEPT !.isLoadingConfigs = TRUE,
              !.requests = Append(@, [kind |-> "configs", config |-> "",
                                      pc |-> "sent", ranWhile |-> "none"])]

\* loadLatestResults up to its await, called in a render whose
\* selectedConfig is config: setIsLoading(true), fetch(latest)
loadLatestResults(p, config) ==
    IF config = ""
    THEN p
    ELSE [p EXCEPT !.isLoading = TRUE,
                   !.requests = Append(@, [kind |-> "latest", config |-> config,
                                           pc |-> "sent",
                                           ranWhile |-> "none"])]

\* setSelectedConfig(name), and the effect on [selectedConfig] that runs
\* after the next render of a mounted panel when the value has changed
setSelectedConfig(p, name) ==
    IF p.life = "mounted" /\ name # p.selectedConfig
    THEN loadLatestResults([p EXCEPT !.selectedConfig = name], name)
    ELSE [p EXCEPT !.selectedConfig = name]

\* the delayed reloads that may still issue a request: scans whose POST is
\* in flight or whose timer is pending
pendingReloads(p) ==
    Cardinality({i \in 1..Len(p.scans) : p.scans[i].pc \in {"sent", "timer"}})

\* the mount effects: loadConfigs(); selectedConfig is still empty
MountAutotradeScreenerPanel ==
    /\ tab.life = "absent" /\ view.life = "absent" /\ panel.life = "absent"
    /\ panel' = loadConfigs([panel EXCEPT !.life = "mounted"])
    /\ PanelFrame

\* the panel's effects return no cleanup
UnmountAutotradeScreenerPanel ==
    /\ panel.life = "mounted"
    /\ panel' = [panel EXCEPT !.life = "torndown"]
    /\ PanelFrame

\* the continuation of loadConfigs for request i
configsSettled(p, i, response) ==
    LET done == [p EXCEPT !.requests[i].pc = "done",
                          !.requests[i].ranWhile = p.life]
    IN  IF response.kind # "ok"
        THEN [done EXCEPT !.isLoadingConfigs = FALSE]
        ELSE LET configs == IF response.body.hasConfigs
                            THEN response.body.configs ELSE <<>>
                 loaded == [done EXCEPT !.configs = configs]
                 selected == IF response.body.hasConfigs
                                /\ Len(response.body.configs) > 0
                             THEN setSelectedConfig(loaded,
                                      response.body.configs[1].name)
                             ELSE loaded
             IN  [selected EXCEPT !.isLoadingConfigs = FALSE]

\* the /screener/configs response arrives
PanelConfigsSettled ==
    /\ \E i \in 1..Len(panel.requests) :
         /\ panel.requests[i].kind = "configs"
         /\ panel.requests[i].pc = "sent"
         /\ \E response \in FetchOutcomes(ConfigBodies, NoConfigBody) :
              /\ Len(configsSettled(panel, i, response).requests) <= MaxRequest
              /\ panel' = configsSettled(panel, i, response)
    /\ PanelFrame

\* the user picks another screener in the Select
SelectConfig ==
    /\ panel.life = "mounted"
    /\ ~panel.isLoadingConfigs
    /\ Len(panel.requests) + pendingReloads(panel) < MaxRequest
    /\ \E k \in 1..Len(panel.configs) :
         /\ panel.configs[k].name # panel.selectedConfig
         /\ panel' = setSelectedConfig(panel, panel.configs[k].name)
    /\ PanelFrame

\* the user presses Refresh
PanelRefresh ==
    /\ panel.life = "mounted"
    /\ ~panel.isLoading
    /\ panel.selectedConfig # ""
    /\ Len(panel.requests) + pendingReloads(panel) < MaxRequest
    /\ panel' = loadLatestResults(panel, panel.selectedConfig)
    /\ PanelFrame

\* mutant: the continuation is dropped once the panel is torn down
latestSettledIfMounted(p, i, response) ==
    IF p.life # "mounted"
    THEN [p EXCEPT !.requests[i].pc = "done"]
    ELSE IF response.kind = "ok"
         THEN [p EXCEPT
                 !.session = IF response.body.hasSession
                             THEN [isNull |-> FALSE,
                                   config_name |-> response.body.config_name,
                                   req |-> i]
                             ELSE NullSession,
                 !.results = [req |-> i, config |-> p.requests[i].config,
                              data |-> IF response.body.hasResults
                                       THEN response.body.results ELSE <<>>],
                 !.isLoading = FALSE,
                 !.requests[i].ranWhile = p.life,
                 !.requests[i].pc = "done"]
         ELSE [p EXCEPT !.results = [req |-> i, config |-> p.requests[i].config,
                                     data |-> <<>>],
                        !.session = NullSession,
                        !.isLoading = FALSE,
                        !.requests[i].ranWhile = p.life,
                        !.requests[i].pc = "done"]

\* the continuation of loadLatestResults for request i
latestSettled(p, i, response) ==
    IF response.kind = "ok"
    THEN [p EXCEPT
            !.session = IF response.body.hasSession
                        THEN [isNull |-> FALSE,
                              config_name |-> response.body.config_name,
                              req |-> i]
                        ELSE NullSession,
            !.results = [req |-> i, config |-> p.requests[i].config,
                         data |-> IF response.body.hasResults
                                  THEN response.body.results ELSE <<>>],
            !.isLoading = FALSE,
            !.requests[i].ranWhile = p.life,
            !.requests[i].pc = "done"]
    ELSE [p EXCEPT !.results = [req |-> i, config |-> p.requests[i].config,
                                data |-> <<>>],
                   !.session = NullSession,
                   !.isLoading = FALSE,
                   !.requests[i].ranWhile = p.life,
                   !.requests[i].pc = "done"]

\* the /screener/latest response of request i arrives
PanelLatestSettled ==
    /\ \E i \in 1..Len(panel.requests) :
         /\ panel.requests[i].kind = "latest"
         /\ panel.requests[i].pc = "sent"
         /\ \E response \in FetchOutcomes(LatestBodies(panel.requests[i].config),
                                         NoLatestBody) :
              panel' = latestSettled(panel, i, response)
    /\ PanelFrame

\* triggerNewScreening up to its await, called in a render whose
\* selectedConfig is config: setIsLoading(true), configs.find, fetch(run, POST);
\* when the config is not found the catch and finally blocks run at once
triggerNewScreening(p, config) ==
    IF config = ""
    THEN p
    ELSE IF \A k \in 1..Len(p.configs) : p.configs[k].name # config
         THEN [p EXCEPT !.isLoading = FALSE]
         ELSE [p EXCEPT !.isLoading = TRUE,
                        !.scans = Append(@, [config |-> config, pc |-> "sent",
                                             delay |-> 0])]

\* the user presses Run New Scan
TriggerNewScreening ==
    /\ panel.life = "mounted"
    /\ ~panel.isLoading
    /\ panel.selectedConfig # ""
    /\ Len(panel.scans) < MaxScan
    /\ Len(panel.requests) + pendingReloads(panel) < MaxRequest
    /\ panel' = triggerNewScreening(panel, panel.selectedConfig)
    /\ PanelFrame

\* mutant: the reload is scheduled whatever the POST returned
runSettledAlwaysReloads(p, i, outcome) ==
    [p EXCEPT !.scans[i].pc = "timer",
              !.scans[i].delay = ReloadDelayMs,
              !.isLoading = FALSE]

\* the continuation of triggerNewScreening for scan i: setTimeout(reload,
\* 5000) after a 2xx response, the catch block otherwise; then the finally
runSettled(p, i, outcome) ==
    IF outcome = "ok"
    THEN [p EXCEPT !.scans[i].pc = "timer",
                   !.scans[i].delay = ReloadDelayMs,
                   !.isLoading = FALSE]
    ELSE [p EXCEPT !.scans[i].pc = "failed",
                   !.isLoading = FALSE]

\* the response of POST /screener/run arrives
PanelRunSettled ==
    /\ \E i \in 1..Len(panel.scans), outcome \in PostOutcomes :
         /\ panel.scans[i].pc = "sent"
         /\ panel' = runSettled(panel, i, outcome)
    /\ PanelFrame

\* the timeout of scan i fires: loadLatestResults() of the render in which
\* Run New Scan was pressed
PanelReloadTimer ==
    /\ \E i \in 1..Len(panel.scans) :
         /\ panel.scans[i].pc = "timer"
         /\ panel' = loadLatestResults([panel EXCEPT !.scans[i].pc = "fired"],
                                       panel.scans[i].config)
    /\ PanelFrame

----------------------------------------------------------------------------
(* Specifications *)

NoResult == [op |-> "none", status |-> "none"]

NoTransform == [kind |-> "none"]

Init ==
    /\ isConnected = FALSE
    /\ accountId = ""
    /\ invokeCount = 0
    /\ brokerAdapter = NullAdapter
    /\ svc = SvcIdle
    /\ result = NoResult
    /\ tIn = NoTransform
    /\ tOut = NoTransform
    /\ tab = TabAbsent
    /\ view = ViewAbsent
    /\ panel = PanelAbsent

Next ==
    \/ Authenticate
    \/ Logout
    \/ RefreshSession
    \/ ConnectWebSocket
    \/ DisconnectWebSocket
    \/ PlaceOrder
    \/ ModifyOrder
    \/ CancelOrder
    \/ CancelAllOrders
    \/ CloseAllPositions
    \/ PlaceSmartOrder
    \/ GetFunds
    \/ GetPositions
    \/ GetOrders
    \/ GetOrderHistory
    \/ AdapterGetHoldings
    \/ GetOpenPosition
    \/ GetQuote
    \/ GetQuotes
    \/ GetMarketDepth
    \/ Subscribe
    \/ Unsubscribe
    \/ OnTick
    \/ OffTick
    \/ OnDepth
    \/ OffDepth

\* the AutotradeAdapter used directly
Spec == Init /\ [][Next]_vars

ServiceNext ==
    \/ SetBrokerAdapter
    \/ GetPortfolioSummary
    \/ GetHoldings
    \/ FundsSettled
    \/ PositionsSettled(SamplePositionLists, Times)

\* the service over an injected adapter
ServiceSpec == Init /\ [][ServiceNext]_vars

SummaryNext ==
    \/ setBrokerAdapter("other")
    \/ GetPortfolioSummary
    \/ FundsSettled
    \/ PositionsSettled(RangePositionLists, {0})

\* the service over an adapter that returns the full range of positions
SummarySpec == Init /\ [][SummaryNext]_vars

UINext ==
    \/ MountAutotradeTab
    \/ UnmountAutotradeTab
    \/ TabTick
    \/ TabHealthSettled
    \/ TabStrategiesSettled
    \/ TabPositionsSettled
    \/ ControlStrategy
    \/ TabPlaceOrder
    \/ TabPostSettled
    \/ MountAutoPositionsView
    \/ ViewTick
    \/ UnmountAutoPositionsView
    \/ MountAutotradeScreenerPanel
    \/ UnmountAutotradeScreenerPanel
    \/ PanelConfigsSettled
    \/ SelectConfig
    \/ PanelRefresh
    \/ PanelLatestSettled
    \/ TriggerNewScreening
    \/ PanelRunSettled
    \/ PanelReloadTimer

\* the user-interface components over the Autotrade backend
UISpec == Init /\ [][UINext]_vars

----------------------------------------------------------------------------
(* The transform functions applied to arbitrary inputs *)

PortfolioIds == {defaultPortfolioId, "my-portfolio"}

\* AutotradePosition records inside a portfolio summary (the fields
\* transformAutotradePortfolioToFincept reads)
PortfolioPositions ==
    [symbol : Symbols, instrument_id : {"TQQQ.NASDAQ"}, quantity : Quantities,
     averagePrice : Prices, lastPrice : {2}, market_value : {4},
     cost_basis : {6}, pnl : {1}, pnlPercent : {3}, dayPnl : {5}, weight : {0}]

\* AutotradePortfolioSummary records; the totals are independent of the
\* positions, as in sampleAutotradePortfolio
PortfolioSummaries ==
    [positions : SeqsUpTo(PortfolioPositions, MaxLen),
     total_market_value : {8}, total_cost_basis : {6},
     total_unrealized_pnl : {2}, total_unrealized_pnl_percent : {Zero},
     total_positions : {0, 8}, last_updated : {7}]

\* what getFunds and getPositions of an adapter may have resolved to
AdapterFunds == {o.value : o \in {x \in OtherFundsOutcomes : x.status = "resolved"}}

TransformInputs ==
    [kind : {"position"}, position : AutotradePositions]
    \cup [kind : {"portfolio"}, portfolio : PortfolioSummaries]
    \cup [kind : {"adapterData"}, funds : AdapterFunds,
          positions : SamplePositionLists]

TransformInit ==
    /\ isConnected = FALSE
    /\ accountId = ""
    /\ invokeCount = 0
    /\ brokerAdapter = NullAdapter
    /\ svc = SvcIdle
    /\ result = NoResult
    /\ tIn \in TransformInputs
    /\ tOut = NoTransform
    /\ tab = TabAbsent
    /\ view = ViewAbsent
    /\ panel = PanelAbsent

ApplyTransformAutotradePositionToPosition ==
    /\ tIn.kind = "position"
    /\ tOut' = [kind |-> "transformAutotradePositionToPosition",
                value |-> transformAutotradePositionToPosition(tIn.position)]
    /\ UNCHANGED <<sessionVars, bridgeVars, svcVars, result, tIn, uiVars>>

ApplyTransformPosition ==
    /\ tIn.kind = "position"
    /\ tOut' = [kind |-> "transformPosition",
                value |-> transformPosition(tIn.position)]
    /\ UNCHANGED <<sessionVars, bridgeVars, svcVars, result, tIn, uiVars>>

ApplyTransformAutotradePortfolioToFincept ==
    /\ tIn.kind = "portfolio"
    /\ \E portfolioId \in PortfolioIds, now \in Times :
         tOut' = [kind |-> "transformAutotradePortfolioToFincept",
                  portfolioId |-> portfolioId,
                  now |-> now,
                  value |-> transformAutotradePortfolioToFincept(
                                tIn.portfolio, portfolioId, now)]
    /\ UNCHANGED <<sessionVars, bridgeVars, svcVars, result, tIn, uiVars>>

ApplyFetchAutotradePortfolio ==
    /\ tIn.kind = "adapterData"
    /\ \E account \in ServiceAccounts, now \in Times :
         tOut' = [kind |-> "fetchAutotradePortfolio",
                  value |-> fetchAutotradePortfolio(account, tIn.funds,
                                                    tIn.positions, now)]
    /\ UNCHANGED <<sessionVars, bridgeVars, svcVars, result, tIn, uiVars>>

TransformNext ==
    \/ ApplyTransformAutotradePositionToPosition
    \/ ApplyTransformPosition
    \/ ApplyTransformAutotradePortfolioToFincept
    \/ ApplyFetchAutotradePortfolio

TransformSpec == TransformInit /\ [][TransformNext]_vars

----------------------------------------------------------------------------
(* Properties *)

OrderWriteOps == {"placeOrder", "modifyOrder", "cancelOrder", "placeSmartOrder"}
BulkWriteOps == {"cancelAllOrders", "closeAllPositions"}
WriteOps == OrderWriteOps \cup BulkWriteOps

\* a response envelope on which the reads fall back or fail
FailedResponse(r) == r.rejected \/ ~r.success \/ ~r.hasData

RECURSIVE SumSeq(_)
SumSeq(s) == IF Len(s) = 0 THEN 0 ELSE s[Len(s)] + SumSeq(SubSeq(s, 1, Len(s) - 1))

Magnitude(x) == IF x >= 0 THEN x ELSE 0 - x

C2_GetPositionsNeverRejects ==
    result.op = "getPositions" =>
        /\ result.status = "resolved"
        /\ IF FailedResponse(result.response)
           THEN result.value = <<>>
           ELSE /\ Len(result.value) = Len(result.response.data)
                /\ \A i \in 1..Len(result.value) :
                     /\ result.value[i] = transformPosition(result.response.data[i])
                     /\ result.value[i].symbol = result.response.data[i].symbol
                     /\ result.value[i].quantity = result.response.data[i].quantity

\* getPositions has returned after a rejected bridge call
C2_Witness ==
    /\ result.op = "getPositions"
    /\ result.response.rejected
    /\ result.value = <<>>

\* C3: getFunds rejects when the bridge call rejects or the envelope has
\* success = false or no data; otherwise it resolves with availableCash =
\* cash_balance and totalBalance = net_liquidation_value.
C3_GetFundsRejectsOnFailure ==
    result.op = "getFunds" =>
        IF FailedResponse(result.response)
        THEN result.status = "rejected"
        ELSE /\ result.status = "resolved"
             /\ result.value.availableCash = result.response.data.cash_balance
             /\ result.value.totalBalance =
                    result.response.data.net_liquidation_value

\* getFunds has rejected on a success = false envelope that carried data
C3_Witness ==
    /\ result.op = "getFunds"
    /\ ~result.response.rejected
    /\ ~result.response.success
    /\ result.response.hasData
    /\ result.status = "rejected"

PositionTransforms == {"transformAutotradePositionToPosition", "transformPosition"}

\* C4: both position transforms give buyQuantity = q, sellQuantity = 0 for
\* q > 0, buyQuantity = 0, sellQuantity = -q for q < 0, both 0 for q = 0, so
\* that buyQuantity - sellQuantity = quantity.
C4_BuySellQuantities ==
    tOut.kind \in PositionTransforms =>
        LET q == tIn.position.quantity
            out == tOut.value
        IN  /\ q > 0 => out.buyQuantity = q /\ out.sellQuantity = 0
            /\ q < 0 => out.buyQuantity = 0 /\ out.sellQuantity = 0 - q
            /\ q = 0 => out.buyQuantity = 0 /\ out.sellQuantity = 0
            /\ out.quantity = q
            /\ out.buyQuantity - out.sellQuantity = out.quantity

\* the adapter's transform has been applied to a short position
C4_Witness ==
    /\ tOut.kind = "transformPosition"
    /\ tIn.position.quantity < 0
    /\ tOut.value.sellQuantity > 0

\* C5: every position produced by a position transform, and every position
\* of the portfolio summary synthesized by the service, has overnight = true
\* whatever the input's overnight value.
C5_OvernightAlwaysTrue ==
    /\ tOut.kind \in PositionTransforms => tOut.value.overnight = "true"
    /\ tOut.kind = "fetchAutotradePortfolio" =>
         /\ Len(tOut.value.positions) = Len(tIn.positions)
         /\ \A i \in 1..Len(tOut.value.positions) :
              tOut.value.positions[i].overnight = "true"

\* the service has synthesized a summary from a position with overnight = false
C5_Witness ==
    /\ tOut.kind = "fetchAutotradePortfolio"
    /\ \E i \in 1..Len(tIn.positions) : tIn.positions[i].overnight = "false"

\* C6: the summary returned by getPortfolioSummary has total_market_value =
\* sum of |quantity * lastPrice|, total_cost_basis = sum of
\* |quantity * averagePrice|, total_unrealized_pnl = sum of pnl, and the
\* synthesized net_liquidation_value = total_market_value + availableCash;
\* the scenario of cash 50000 and one position of 100 units gives 54625.
C6_SummaryTotals ==
    /\ (result.op = "getPortfolioSummary" /\ result.status = "resolved") =>
         LET ps == result.positions
             n == Len(ps)
         IN  /\ result.value.total_market_value =
                  SumSeq([i \in 1..n |-> Magnitude(ps[i].quantity * ps[i].lastPrice)])
             /\ result.value.total_cost_basis =
                  SumSeq([i \in 1..n |-> Magnitude(ps[i].quantity * ps[i].averagePrice)])
             /\ result.value.total_unrealized_pnl =
                  SumSeq([i \in 1..n |-> ps[i].pnl])
             /\ result.autotradePortfolio.net_liquidation_value =
                  result.value.total_market_value + result.funds.availableCash
    /\ LET scenario ==
               fetchAutotradePortfolio("DU1",
                   [availableCash |-> 5000000],
                   <<[symbol |-> "TQQQ", exchange |-> "NASDAQ",
                      productType |-> "CASH", quantity |-> 100,
                      buyQuantity |-> 100, sellQuantity |-> 0,
                      buyValue |-> 455000, sellValue |-> 0,
                      averagePrice |-> 4550, lastPrice |-> 4625,
                      pnl |-> 7500, pnlPercent |-> 2, dayPnl |-> 1250,
                      overnight |-> "true"]>>, 0)
       IN  /\ scenario.total_market_value = 462500
           /\ scenario.total_cost_basis = 455000
           /\ scenario.total_unrealized_pnl = 7500
           /\ scenario.net_liquidation_value = 5462500

\* a summary over a long and a short position with cash has been returned
C6_Witness ==
    /\ result.op = "getPortfolioSummary"
    /\ result.status = "resolved"
    /\ Len(result.positions) = 2
    /\ result.positions[1].quantity > 0
    /\ result.positions[2].quantity < 0
    /\ result.positions[2].lastPrice > 0
    /\ result.funds.availableCash > 0

\* C7: when the fetched positions sum to total_cost_basis = 0, the returned
\* total_unrealized_pnl_percent is exactly 0 and no division by zero occurs.
C7_ZeroCostBasisPercent ==
    (/\ result.op = "getPortfolioSummary"
     /\ result.status = "resolved"
     /\ result.value.total_cost_basis = 0) =>
        /\ result.value.total_unrealized_pnl_percent.den # 0
        /\ result.value.total_unrealized_pnl_percent.num = 0

\* a summary with positions, zero cost basis and non-zero pnl has been returned
C7_Witness ==
    /\ result.op = "getPortfolioSummary"
    /\ result.status = "resolved"
    /\ Len(result.positions) > 0
    /\ result.value.total_cost_basis = 0
    /\ result.value.total_unrealized_pnl # 0

\* C8: transformAutotradePortfolioToFincept on a summary with N positions
\* returns N holdings in the same order, the i-th with the i-th position's
\* symbol, quantity and averagePrice and with portfolio_id = portfolioId.
C8_OneHoldingPerPosition ==
    tOut.kind = "transformAutotradePortfolioToFincept" =>
        LET ps == tIn.portfolio.positions
            hs == tOut.value.holdings
        IN  /\ Len(hs) = Len(ps)
            /\ \A i \in 1..Len(ps) :
                 /\ hs[i].symbol = ps[i].symbol
                 /\ hs[i].quantity = ps[i].quantity
                 /\ hs[i].avg_buy_price = ps[i].averagePrice
                 /\ hs[i].portfolio_id = tOut.portfolioId

\* two different positions have been transformed under a non-default id
C8_Witness ==
    /\ tOut.kind = "transformAutotradePortfolioToFincept"
    /\ Len(tIn.portfolio.positions) = 2
    /\ tIn.portfolio.positions[1].symbol # tIn.portfolio.positions[2].symbol
    /\ tIn.portfolio.positions[1].averagePrice > 0
    /\ tOut.portfolioId # defaultPortfolioId

C10_AdapterRequired ==
    /\ [](brokerAdapter = NullAdapter => svc = SvcIdle /\ invokeCount = 0)
    /\ []((result.op \in ServiceOps /\ result.status = "rejected"
           /\ result.value = ErrAdapterNotSet) => result.calls = <<>>)
    /\ [][(brokerAdapter = NullAdapter /\ result' # result) =>
            /\ result'.op \in ServiceOps
            /\ result'.status = "rejected"
            /\ result'.value = ErrAdapterNotSet]_vars
    /\ [][(svc'.calls # svc.calls /\ svc'.calls # <<>>) =>
            /\ brokerAdapter # NullAdapter
            /\ svc'.calls[Len(svc'.calls)].adapter = brokerAdapter]_vars

\* getHoldings has rejected for want of an adapter
C10_Witness ==
    /\ result.op = "getHoldings"
    /\ result.status = "rejected"
    /\ result.value = ErrAdapterNotSet
    /\ brokerAdapter = NullAdapter

----------------------------------------------------------------------------
(* Properties of the transform functions, the adapter reads and the session *)

PortfolioTransform == "transformAutotradePortfolioToFincept"

\* a transformed portfolio with the first_purchase_date of its holdings blanked
WithoutPurchaseDate(v) ==
    [v EXCEPT !.holdings = [i \in 1..Len(v.holdings) |->
                              [v.holdings[i] EXCEPT !.first_purchase_date = 0]]]

ReadOps == {"getFunds", "getPositions", "getOrders", "adapter.getHoldings",
            "getOrderHistory", "getOpenPosition"}

\* the bridge command each read operation invokes
CommandOf(op) ==
    CASE op = "getFunds" -> "autotrade_get_account_summary"
      [] op \in {"getOrders", "getOrderHistory"} -> "autotrade_get_orders"
      [] OTHER -> "autotrade_get_positions"

\* C12: each call of getFunds, getPositions, getOrders, getHoldings,
\* getOrderHistory or getOpenPosition makes exactly one native-bridge
\* invocation (of its command, for the adapter's account), whether the
\* invocation succeeds or fails and whether or not the adapter is connected.
C12_OneInvocationPerRead ==
    /\ [][result'.op \in ReadOps => invokeCount' = invokeCount + 1]_vars
    /\ [](result.op \in ReadOps =>
            result.invoked = Invocation(CommandOf(result.op), accountId))

\* a disconnected adapter has made a second read whose bridge call rejected
C12_Witness ==
    /\ result.op = "getOrders"
    /\ result.response.rejected
    /\ ~isConnected
    /\ invokeCount = 2

MarketDataOps == {"getQuote", "getQuotes", "getMarketDepth", "subscribe",
                  "unsubscribe", "onTick", "offTick", "onDepth", "offDepth"}

\* C17: the market-data and streaming operations and every read and write
\* operation leave isConnected and accountId unchanged, and no market-data or
\* streaming operation makes a native-bridge invocation.
C17_FrameOfMarketData ==
    /\ [][result'.op \in MarketDataOps \cup ReadOps \cup WriteOps =>
            /\ isConnected' = isConnected
            /\ accountId' = accountId]_vars
    /\ [][result'.op \in MarketDataOps => invokeCount' = invokeCount]_vars

\* getQuotes has returned two quotes on a connected adapter with an account
C17_Witness ==
    /\ result.op = "getQuotes"
    /\ Len(result.value) = 2
    /\ isConnected
    /\ accountId = "DU1"
    /\ invokeCount > 0

\* C18: refreshSession returns success = false with NOT_CONNECTED exactly
\* when isConnected is false and success = true exactly when it is true,
\* leaves isConnected and accountId unchanged and makes no native-bridge
\* invocation; logout leaves the adapter disconnected, and only authenticate
\* and connectWebSocket connect it again.
C18_RefreshSession ==
    /\ [][result'.op = "refreshSession" =>
            /\ result'.status = "resolved"
            /\ result'.value.success = isConnected
            /\ ErrorCodeOf(result'.value) =
                 (IF isConnected THEN Undefined ELSE "NOT_CONNECTED")
            /\ isConnected' = isConnected
            /\ accountId' = accountId
            /\ invokeCount' = invokeCount]_vars
    /\ [](result.op = "logout" => ~isConnected /\ accountId = "")
    /\ [][(~isConnected /\ isConnected') =>
            result'.op \in {"authenticate", "connectWebSocket"}]_vars

\* refreshSession has returned NOT_CONNECTED on an adapter that was in use
C18_Witness ==
    /\ result.op = "refreshSession"
    /\ ErrorCodeOf(result.value) = "NOT_CONNECTED"
    /\ accountId = ""
    /\ invokeCount > 0

----------------------------------------------------------------------------
(* Properties of the service's fetches *)

\* the adapter methods a service call has invoked, in order
MethodsOf(calls) == [i \in 1..Len(calls) |-> calls[i].method]

\* a getPortfolioSummary call that found an adapter has returned
SummaryReturned ==
    /\ result.op = "getPortfolioSummary"
    /\ result.status \in {"resolved", "rejected"}
    /\ ~(result.status = "rejected" /\ result.value = ErrAdapterNotSet)

\* the summary recomputed from what the returned call itself received
SummaryOfCurrentCall ==
    portfolioSummary(result.accountId,
        fetchAutotradePortfolio(result.accountId, result.funds,
                                result.positions, result.clock[1]),
        result.clock[2])

\* C14 as stated: every getPortfolioSummary call invokes the adapter's
\* getFunds once and getPositions once, and what it returns is a function of
\* those two responses of the current call only.
C14_FetchesBothEveryCall ==
    SummaryReturned =>
        /\ MethodsOf(result.calls) = <<"getFunds", "getPositions">>
        /\ result.status = "resolved" => result.value = SummaryOfCurrentCall

\* C14 amended: the service keeps no cache: every getPortfolioSummary call
\* made with an adapter set invokes getFunds once, and getPositions once
\* after getFunds has resolved and not at all when getFunds rejects; the
\* summary it returns is a function of those two responses, its accountId
\* argument and its own clock readings, whatever earlier calls received.
C14_NoCache ==
    /\ [](SummaryReturned /\ result.status = "resolved" =>
            /\ MethodsOf(result.calls) = <<"getFunds", "getPositions">>
            /\ result.value = SummaryOfCurrentCall
            /\ Len(result.value.holdings) = Len(result.positions))
    /\ [](SummaryReturned /\ result.status = "rejected" =>
            MethodsOf(result.calls) =
                (IF result.failedAt = "getFunds"
                 THEN <<"getFunds">> ELSE <<"getFunds", "getPositions">>))
    /\ [][svc'.calls # svc.calls =>
            \/ svc'.calls = <<>>
            \/ /\ svc.calls = <<>>
               /\ MethodsOf(svc'.calls) = <<"getFunds">>
            \/ /\ MethodsOf(svc.calls) = <<"getFunds">>
               /\ MethodsOf(svc'.calls) = <<"getFunds", "getPositions">>]_vars

\* a summary has been returned from the other adapter after an earlier call
\* had fetched funds and positions through the Autotrade adapter
C14_Witness ==
    /\ SummaryReturned
    /\ result.status = "resolved"
    /\ result.calls[1].adapter = "other"
    /\ invokeCount = 2
    /\ Len(result.positions) > 0

----------------------------------------------------------------------------
(* Properties of the user-interface components *)

\* the step starts a run of fetchAutotradeData from the interval timer:
\* neither the mount effect nor the continuation of a control POST
TickStartsRun ==
    /\ Len(tab'.runs) > Len(tab.runs)
    /\ tab.life # "absent"
    /\ tab'.posts = tab.posts

\* C15: once AutotradeTab or AutoPositionsView is torn down its interval
\* timer is cleared and stays cleared: no later step starts a run of
\* fetchAutotradeData from a timer tick, and none refreshes lastRefresh.
C15_TimersClearedOnTeardown ==
    /\ [](tab.life = "torndown" => ~tab.interval)
    /\ [](view.life = "torndown" => ~view.interval)
    /\ [][tab.life = "torndown" => tab'.life = "torndown" /\ ~TickStartsRun]_vars
    /\ [][view.life = "torndown" => view' = view]_vars
    /\ [][TickStartsRun => tab.interval /\ tab.life = "mounted"]_vars

\* AutotradeTab has been torn down with a request in flight while another
\* run of fetchAutotradeData could still be followed
C15_Witness ==
    /\ tab.life = "torndown"
    /\ Len(tab.runs) < MaxFetch
    /\ tab.runs[1].pc # "done"

\* the state the view renders
ViewState(t) ==
    <<t.strategies, t.positions, t.systemStatus, t.error, t.isLoading>>

\* the step runs the continuation of control POST i
PostSettles(i) ==
    /\ i <= Len(tab.posts)
    /\ tab.posts[i].outcome = "none"
    /\ tab'.posts[i].outcome # "none"

\* C16: a control POST that fails by exception or by a non-2xx response
\* changes no view state, starts no run of fetchAutotradeData and issues no
\* further POST; a 2xx response starts exactly one run, and changes no view
\* state other than what that run's start sets (isLoading, error).
C16_FailedControlIgnored ==
    /\ [][\A i \in 1..MaxPost + 1 : PostSettles(i) =>
            /\ Len(tab'.posts) = Len(tab.posts)
            /\ IF tab'.posts[i].outcome = "ok"
               THEN /\ Len(tab'.runs) = Len(tab.runs) + 1
                    /\ tab'.runs[Len(tab'.runs)].pc = "health"
                    /\ SubSeq(tab'.runs, 1, Len(tab.runs)) = tab.runs
                    /\ tab'.strategies = tab.strategies
                    /\ tab'.positions = tab.positions
                    /\ tab'.systemStatus = tab.systemStatus
                    /\ tab'.isLoading
                    /\ tab'.error = Null
               ELSE /\ ViewState(tab') = ViewState(tab)
                    /\ tab'.runs = tab.runs]_vars

\* a controlStrategy POST has thrown while strategies were displayed and a
\* fetch was idle
C16_Witness ==
    /\ Len(tab.posts) > 0
    /\ tab.posts[1].handler = "controlStrategy"
    /\ tab.posts[1].outcome = "throws"
    /\ tab.strategies.req > 0
    /\ ~tab.isLoading
    /\ Len(tab.runs) < MaxFetch

\* C19: runs of fetchAutotradeData overlap without mutual exclusion and
\* none is cancelled or restarted; the displayed strategies and positions
\* are always those of the 2xx response that arrived last, whichever run
\* issued its request.
C19_LastArrivalWins ==
    /\ [](/\ tab.strategies.req = tab.arrived.strategies
          /\ tab.positions.req = tab.arrived.positions)
    /\ [][\A i \in 1..Len(tab.runs) :
            /\ Len(tab'.runs) >= i
            /\ tab'.runs[i].pc # tab.runs[i].pc =>
                 <<tab.runs[i].pc, tab'.runs[i].pc>> \in
                     {<<"health", "strategies">>, <<"strategies", "positions">>,
                      <<"positions", "done">>, <<"health", "done">>,
                      <<"strategies", "done">>}]_vars

\* no control POST was made, so the second run was started by a tick; both
\* runs are done and have applied their strategies, and the strategies
\* displayed are those of the earlier run beside the later run's positions
C19_Witness ==
    /\ Len(tab.runs) = 2
    /\ tab.posts = <<>>
    /\ \A i \in 1..2 : tab.runs[i].pc = "done"
    /\ "strategies" \in tab.runs[2].applied
    /\ "strategies" \in tab.runs[1].applied
    /\ tab.strategies.req = 1
    /\ tab.positions.req = 2

\* C20: teardown of AutotradeTab or AutotradeScreenerPanel leaves the
\* requests in flight as they are, and a continuation that runs after
\* teardown applies its state updates as it does before teardown.
C20_InFlightSurviveTeardown ==
    /\ [][(tab.life = "mounted" /\ tab'.life = "torndown") =>
            tab'.runs = tab.runs]_vars
    /\ [][(panel.life = "mounted" /\ panel'.life = "torndown") =>
            panel'.requests = panel.requests]_vars
    /\ [][\A i \in 1..Len(tab.runs) :
            (tab.life = "torndown" /\ tab'.runs[i].pc # tab.runs[i].pc) =>
                /\ "strategies" \in tab'.runs[i].applied \ tab.runs[i].applied
                     => tab'.strategies.req = i
                /\ <<tab.runs[i].pc, tab'.runs[i].pc>> \in
                       {<<"health", "done">>, <<"strategies", "done">>}
                     => /\ tab'.error = ErrFailedToConnect
                        /\ tab'.systemStatus = statusOf(FALSE)
                /\ tab'.runs[i].pc = "done" => ~tab'.isLoading]_vars
    /\ [][\A i \in 1..Len(panel.requests) :
            (/\ panel.life = "torndown"
             /\ panel.requests[i].kind = "latest"
             /\ panel'.requests[i].pc # panel.requests[i].pc) =>
                /\ panel'.results.req = i
                /\ ~panel'.isLoading]_vars

\* the screener panel shows results of a request whose response arrived
\* after the panel was torn down
C20_Witness ==
    /\ panel.life = "torndown"
    /\ panel.results.req > 0
    /\ panel.requests[panel.results.req].ranWhile = "torndown"
    /\ panel.results.data # <<>>
    /\ ~panel.session.isNull

----------------------------------------------------------------------------
(* The two position transforms compared *)

\* C30: the adapter's private transformPosition and the exported
\* transformAutotradePositionToPosition return records equal in every field,
\* buyValue and sellValue included, for every input position: when one is
\* applied after the other to the same input, the two outputs are equal.
C30_TransformsEquivalent ==
    [][(tOut.kind \in PositionTransforms /\ tOut'.kind \in PositionTransforms)
          => tOut'.value = tOut.value]_vars

----------------------------------------------------------------------------
(* Aggregates of the summary against its holdings *)

\* C29: in every summary returned by getPortfolioSummary, total_positions is
\* the number of holdings, total_market_value the sum of the holdings'
\* market_value, total_cost_basis the sum of their cost_basis, and
\* total_unrealized_pnl the sum of their unrealized_pnl.
C29_TotalsMatchHoldings ==
    (result.op = "getPortfolioSummary" /\ result.status = "resolved") =>
        LET hs == result.value.holdings
            n == Len(hs)
        IN  /\ result.value.total_positions = n
            /\ result.value.total_market_value =
                 SumSeq([i \in 1..n |-> hs[i].market_value])
            /\ result.value.total_cost_basis =
                 SumSeq([i \in 1..n |-> hs[i].cost_basis])
            /\ result.value.total_unrealized_pnl =
                 SumSeq([i \in 1..n |-> hs[i].unrealized_pnl])

\* a summary has been returned whose holdings include a short position with
\* a market value, and whose pnl entries cancel
C29_Witness ==
    /\ result.op = "getPortfolioSummary"
    /\ result.status = "resolved"
    /\ Len(result.value.holdings) = 2
    /\ result.value.holdings[2].quantity < 0
    /\ result.value.holdings[2].market_value > 0
    /\ result.value.holdings[1].unrealized_pnl > 0
    /\ result.value.holdings[2].unrealized_pnl < 0

----------------------------------------------------------------------------
(* Failure propagation in the service *)

\* the summary of an account that has the given funds and no positions
SummaryWithoutPositions ==
    portfolioSummary(result.accountId,
        fetchAutotradePortfolio(result.accountId, result.funds, <<>>,
                                result.clock[1]),
        result.clock[2])

\* C24: getPortfolioSummary calls the adapter's getFunds before getPositions;
\* if getFunds rejects, getPortfolioSummary rejects with the same error and
\* getPositions is not called; if getFunds succeeds and the positions fetch
\* fails inside the Autotrade adapter, getPortfolioSummary resolves with no
\* holdings and zero total_market_value, total_cost_basis and total_positions:
\* the very summary of an account without positions.
C24_FailurePropagation ==
    /\ [](SummaryReturned =>
            /\ Len(result.calls) >= 1
            /\ MethodsOf(result.calls) =
                 SubSeq(<<"getFunds", "getPositions">>, 1, Len(result.calls)))
    /\ [](SummaryReturned /\ result.status = "rejected" =>
            /\ result.failedAt = "getFunds" =>
                 /\ result.settled.status = "rejected"
                 /\ result.value = result.settled.value
                 /\ MethodsOf(result.calls) = <<"getFunds">>
                 /\ result.calls[1].adapter = "autotrade" =>
                      /\ FailedResponse(result.settled.response)
                      /\ result.value \in {InvokeError, "Failed to fetch funds",
                                           result.settled.response.error})
    /\ [][svc.pc = "funds" /\ svc'.pc = "idle" =>
            /\ result'.status = "rejected"
            /\ invokeCount' = invokeCount]_vars
    /\ [](/\ SummaryReturned
          /\ result.status = "resolved"
          /\ result.calls[2].adapter = "autotrade"
          /\ FailedResponse(result.settled.response)
          => /\ result.value.holdings = <<>>
             /\ result.value.total_market_value = 0
             /\ result.value.total_cost_basis = 0
             /\ result.value.total_positions = 0
             /\ result.value = SummaryWithoutPositions)

\* a summary has resolved through the Autotrade adapter with cash, although
\* the positions envelope said success = false and carried positions
C24_Witness ==
    /\ SummaryReturned
    /\ result.status = "resolved"
    /\ result.calls[2].adapter = "autotrade"
    /\ ~result.settled.response.rejected
    /\ ~result.settled.response.success
    /\ Len(result.settled.response.data) > 0
    /\ result.funds.availableCash > 0
    /\ result.value.holdings = <<>>

----------------------------------------------------------------------------
(* The session of the adapter *)

\* C25: once authenticate has returned success, isConnected stays true and
\* refreshSession keeps returning success until logout is called, whatever
\* other operations are invoked in between, and isConnected is never true
\* unless authenticate has been called since construction or the last logout:
\* isConnected is set by authenticate, cleared by logout, and changed by no
\* other operation.
C25_SessionPersistence ==
    /\ [][isConnected' # isConnected =>
            result'.op \in {"authenticate", "logout"}]_vars
    /\ [][result'.op = "authenticate" =>
            isConnected' /\ result'.value.success]_vars
    /\ [][result'.op = "logout" => ~isConnected']_vars
    /\ [][result'.op = "refreshSession" =>
            result'.value.success = isConnected']_vars

\* C26: the accountId that a read hands to the native bridge, and that the
\* accountId getter and AuthResponse.userId report, is the userId of the most
\* recent authenticate call that supplied a non-empty userId since
\* construction or the last logout, and the empty string if there was none;
\* an authenticate call without userId keeps the stored account id.
C26_AccountScoping ==
    /\ [][result'.op = "authenticate" =>
            /\ accountId' = (IF result'.credentials.userId \in {Undefined, ""}
                             THEN accountId
                             ELSE result'.credentials.userId)
            /\ result'.value.userId = accountId']_vars
    /\ [](result.op \in {"none", "logout"} => accountId = "")
    /\ [][accountId' # accountId =>
            result'.op \in {"authenticate", "logout"}]_vars
    /\ [](result.op \in ReadOps => result.invoked.accountId = accountId)

\* authenticate without a userId has returned on an adapter that had used
\* the bridge, and reports the account of an earlier authenticate
C26_Witness ==
    /\ result.op = "authenticate"
    /\ result.credentials.userId = Undefined
    /\ result.value.userId = "DU2"
    /\ invokeCount > 0

----------------------------------------------------------------------------
(* Failures of fetchAutotradeData *)

\* the response without body of the given kind ("notOk", "throws") to the
\* request of a stage
FailedFetch(stage, kind) ==
    [kind |-> kind, body |-> IF stage = "health" THEN NoHealthBody ELSE NoBody]

\* the step is the continuation of run i of fetchAutotradeData after the
\* response r to the request it awaits; a continuation always moves the run
\* past that request
TabSettles(i, r) ==
    /\ i \in 1..Len(tab'.runs)
    /\ tab'.runs[i].pc # tab.runs[i].pc
    /\ tab' = CASE tab.runs[i].pc = "health" -> healthSettled(tab, i, r)
               [] tab.runs[i].pc = "strategies" -> strategiesSettled(tab, i, r)
               [] tab.runs[i].pc = "positions" -> positionsSettled(tab, i, r)
               [] OTHER -> tab

\* C23: when a request of fetchAutotradeData throws, the fetch ends with
\* systemStatus all false, error set to a message and isLoading = false, and
\* the strategies and positions lists keep what was stored; a non-2xx response
\* to /health, /strategies/active or /positions sets no error and leaves the
\* corresponding state (systemStatus, strategies, positions) unchanged.
C23_FetchFailure ==
    [][\A i \in 1..Len(tab.runs) :
          LET stage == tab.runs[i].pc IN
          /\ TabSettles(i, FailedFetch(stage, "throws")) =>
                /\ tab'.runs[i].pc = "done"
                /\ tab'.systemStatus = statusOf(FALSE)
                /\ ~tab'.systemStatus.isNull
                /\ tab'.error # Null
                /\ tab'.isLoading = FALSE
                /\ tab'.strategies = tab.strategies
                /\ tab'.positions = tab.positions
          /\ TabSettles(i, FailedFetch(stage, "notOk")) =>
                /\ tab'.error = tab.error
                /\ stage = "health" => tab'.systemStatus = tab.systemStatus
                /\ stage = "strategies" => tab'.strategies = tab.strategies
                /\ stage = "positions" => tab'.positions = tab.positions]_vars

\* every run has ended, the last request to fail threw after strategies had
\* been stored, and the stored strategies are still there
C23_Witness ==
    /\ Len(tab.runs) = 2
    /\ \A i \in 1..Len(tab.runs) : tab.runs[i].pc = "done"
    /\ tab.error # Null
    /\ tab.systemStatus = statusOf(FALSE)
    /\ ~tab.isLoading
    /\ tab.strategies.data # <<>>

----------------------------------------------------------------------------
(* Run New Scan and its delayed reload *)

\* the step is the continuation of triggerNewScreening for scan i after the
\* POST /screener/run settled with the given outcome
PanelScanSettles(i, outcome) ==
    /\ i \in 1..Len(panel.scans)
    /\ panel.scans[i].pc = "sent"
    /\ panel' = runSettled(panel, i, outcome)

\* the step issues a GET /screener/latest
IssuesLatest ==
    /\ Len(panel'.requests) = Len(panel.requests) + 1
    /\ panel'.requests[Len(panel'.requests)].kind = "latest"

\* C21: in triggerNewScreening a re-fetch of the latest results is scheduled
\* exactly once, 5 seconds after a 2xx response to POST /screener/run, without
\* waiting for the backend; when the POST fails (exception, non-2xx, or
\* config not found) no re-fetch is scheduled; in every case isLoading is
\* reset to false as soon as the POST settles, before the re-fetch runs.
C21_DelayedReload ==
    /\ [][\A i \in 1..MaxScan :
            PanelScanSettles(i, "ok") =>
                /\ panel'.scans[i].pc = "timer"
                /\ panel'.scans[i].delay = 5000
                /\ panel'.requests = panel.requests
                /\ ~panel'.isLoading]_vars
    /\ [][\A i \in 1..MaxScan, outcome \in {"notOk", "throws"} :
            PanelScanSettles(i, outcome) =>
                /\ panel'.scans[i].pc = "failed"
                /\ panel'.requests = panel.requests
                /\ ~panel'.isLoading]_vars
    /\ [][\A i \in 1..Len(panel.scans) :
            /\ Len(panel'.scans) >= i
            /\ panel'.scans[i].pc # panel.scans[i].pc =>
                 /\ <<panel.scans[i].pc, panel'.scans[i].pc>> \in
                      {<<"sent", "timer">>, <<"sent", "failed">>,
                       <<"timer", "fired">>}
                 /\ panel'.scans[i].pc = "fired" =>
                      /\ IssuesLatest
                      /\ panel'.requests[Len(panel'.requests)].config =
                           panel.scans[i].config]_vars
    /\ [][Len(panel'.scans) > Len(panel.scans) =>
            /\ \E k \in 1..Len(panel.configs) :
                 panel.configs[k].name = panel'.scans[Len(panel'.scans)].config
            /\ panel'.scans[Len(panel'.scans)].pc = "sent"
            /\ panel'.isLoading]_vars

\* the delayed reload of a scan has fired and its response has been applied
C21_Witness ==
    /\ Len(panel.scans) = 1
    /\ panel.scans[1].pc = "fired"
    /\ Len(panel.requests) = 3
    /\ panel.requests[3].pc = "done"
    /\ panel.results.req = 3
    /\ panel.results.data # <<>>

\* C22: timers are cleared on teardown also in AutotradeScreenerPanel: once
\* the panel is torn down, a pending delayed reload does not fire and no
\* GET /screener/latest is issued.
C22_ScreenerTimerCleared ==
    [][panel.life = "torndown" =>
         /\ ~IssuesLatest
         /\ \A i \in 1..Len(panel.scans) :
              panel.scans[i].pc = "timer" => panel'.scans[i].pc = "timer"]_vars

----------------------------------------------------------------------------
(* Overlapping requests of the components *)

\* C27: in AutotradeTab and in AutotradeScreenerPanel, isLoading is true in
\* every state in which a data fetch started by the component
\* (fetchAutotradeData; loadLatestResults) is still in flight, also when two
\* fetches overlap and the first completes while the second is pending.
C27_LoadingWhileInFlight ==
    /\ (\E i \in 1..Len(tab.runs) : tab.runs[i].pc # "done") => tab.isLoading
    /\ (\E i \in 1..Len(panel.requests) :
          /\ panel.requests[i].kind = "latest"
          /\ panel.requests[i].pc = "sent") => panel.isLoading

\* no request of the panel is in flight and no reload timer is pending
PanelQuiescent ==
    /\ \A i \in 1..Len(panel.requests) : panel.requests[i].pc = "done"
    /\ \A i \in 1..Len(panel.scans) : panel.scans[i].pc \in {"fired", "failed"}

\* C28: in AutotradeScreenerPanel, once all in-flight requests and pending
\* timers have settled, the displayed results and session are those fetched
\* for the currently selected config, also after a config change made while a
\* loadLatestResults request was in flight or during the 5 seconds before a
\* delayed reload.
C28_ResultsOfSelectedConfig ==
    (PanelQuiescent /\ panel.selectedConfig # "") =>
        /\ panel.results.req # 0 => panel.results.config = panel.selectedConfig
        /\ ~panel.session.isNull =>
             panel.session.config_name = panel.selectedConfig

====
